---- MODULE Spec2Model ----
(***************************************************************************)
(* CE Strike 3D game server (server.js): the authoritative simulation.     *)
(*                                                                         *)
(* Units.  JavaScript numbers are modelled by exact integers:              *)
(*   - a length is counted in 1/Scale world units, Scale = PHYSICS_HZ^2,   *)
(*     and a velocity in 1/PHYSICS_HZ world units per second, so that      *)
(*     "p.x += p.vx * dt" is x' = x + vx and "p.vy += GRAVITY * dt" is     *)
(*     vy' = vy + GRAVITY;                                                 *)
(*   - health and damage are counted in 1/PELLETS hit points, so that the  *)
(*     shotgun's "p.damage / pellets" is exact;                            *)
(*   - "Date.now() - p.lastShot" is the clock sinceShot, saturated at the  *)
(*     player's fireRateMs (the only value it is compared with), and a     *)
(*     pending setTimeout is a record holding the milliseconds left.       *)
(*                                                                         *)
(* Geometry of the projectile hit test.  In the runs of Shoot and Tick,    *)
(* where a projectile is relative to the boxes and the players is not      *)
(* tracked; each projectile's fate in a tick (flies on, is removed, hits a *)
(* given player) is a choice of the tick.  In the runs of ShootAt and      *)
(* TickShot a projectile holds its position and direction, and its fate    *)
(* is computed from them.  Player kinematics are exact.                    *)
(***************************************************************************)
EXTENDS Integers, Sequences, FiniteSets, TLC

\* ------------------------------------------------------------ constants
PHYSICS_HZ == 60
Scale == PHYSICS_HZ * PHYSICS_HZ

MAP_W == 80 * Scale
MAP_D == 80 * Scale

GRAVITY == 0 - 28
JUMP_FORCE == 10 * PHYSICS_HZ
PLAYER_H == (18 * Scale) \div 10
PLAYER_R == (4 * Scale) \div 10

WINS_REQUIRED == 15
RESPAWN_MS == 3000
BULLET_SPEED == 40
BULLET_MAX_DIST == 120 * Scale
\* b.dist += BULLET_SPEED * dt
BULLET_STEP == BULLET_SPEED * PHYSICS_HZ
PELLETS == 6

\* ------------------------------------------------------------ bounds
\* Connections that ever open during a run.
Ids == {"s1", "s2"}
\* Connections that send fire and reload requests.
Shooters == {"s1"}
\* Three connections: a shooter and two players in its line of fire.
RangeIds == {"s1", "s2", "s3"}
\* Projectile ids handed out after the initial state.
MaxShots == 3
\* Projectiles in flight at once.
MaxInFlight == 1
\* Physics ticks a projectile sees before it has hit something or is removed.
MaxFlight == 1
\* Spawn points Math.random() draws from, counted from the first.
SpawnDraws == 1
\* Projectile ids and spawn points of a run in which progress is required.
LiveShots == 1
LiveDraws == 2
\* Projectile ids and projectiles in flight of a run that fires every
\* archetype's weapon.
ArmsShots == 6
ArmsInFlight == 6
\* Spawn points of a run that takes the payloads a client can send.
RawDraws == 8
\* Characters of the longest name sent.
LongName == 17
\* Projectile ids handed out in a run in which both players fire.
DuelShots == 2
\* Projectile ids handed out, and projectiles in flight at once, in a run on
\* the shooting range.
RangeShots == 2
RangeInFlight == 2
\* Projectile ids handed out, and physics ticks, in a run with a moving
\* target.
DodgeShots == 1
DodgeTicks == 8
\* Rounds of the match-point volley: two volleys of PELLETS projectiles,
\* one volley in flight at a time.
FinaleShots == 12
FinaleInFlight == 6
\* Physics ticks of a run that follows one player's movement.
MaxTicks == 4
\* Projectile ids handed out before the initial state at match point.
MatchPointShots == 2 * (WINS_REQUIRED - 1) + 1

\* ------------------------------------------------------------ tables
CharNames == {"Andree", "Chesney", "Denver", "Fischer", "Maybelle"}
DefaultChar == "Andree"

Stats(hp, spd10, dmg, rl, am, fr) ==
  [maxHp |-> hp * PELLETS, speed |-> (spd10 * PHYSICS_HZ) \div 10,
   damage |-> dmg * PELLETS, reloadMs |-> rl, maxAmmo |-> am, fireRateMs |-> fr]

CHARACTERS ==
  [c \in CharNames |->
     CASE c = "Andree"   -> Stats(100, 70, 22, 1200, 12, 150)
       [] c = "Chesney"  -> Stats(140, 55, 45, 2200, 6, 600)
       [] c = "Denver"   -> Stats(80, 90, 15, 800, 20, 80)
       [] c = "Fischer"  -> Stats(90, 60, 70, 2500, 5, 1000)
       [] c = "Maybelle" -> Stats(110, 65, 30, 1500, 8, 400)]

Pt(px, pz) == [x |-> px * Scale, z |-> pz * Scale]

SPAWN_POINTS ==
  << Pt(0 - 60, 0 - 60), Pt(60, 0 - 60), Pt(0 - 60, 60), Pt(60, 60),
     Pt(0, 0 - 65), Pt(0, 65), Pt(0 - 65, 0), Pt(65, 0) >>

\* A box: centre (x, y, z) and half-extents (w, h, d), given in quarter units.
Box(x4, y4, z4, w4, h4, d4) ==
  [x |-> (x4 * Scale) \div 4, y |-> (y4 * Scale) \div 4, z |-> (z4 * Scale) \div 4,
   w |-> (w4 * Scale) \div 4, h |-> (h4 * Scale) \div 4, d |-> (d4 * Scale) \div 4]

MAP_BOXES ==
  << Box(0, 12, 320, 320, 24, 4),          \* north wall
     Box(0, 12, 0 - 320, 320, 24, 4),      \* south wall
     Box(320, 12, 0, 4, 24, 320),          \* east wall
     Box(0 - 320, 12, 0, 4, 24, 320),      \* west wall
     Box(0, 4, 0, 24, 8, 24),              \* center bunker
     Box(0 - 80, 4, 40, 16, 8, 8),         \* mid-left cover
     Box(0 - 80, 4, 0 - 40, 16, 8, 8),
     Box(0 - 140, 6, 0, 8, 12, 32),
     Box(80, 4, 40, 16, 8, 8),             \* mid-right cover
     Box(80, 4, 0 - 40, 16, 8, 8),
     Box(140, 6, 0, 8, 12, 32),
     Box(0 - 200, 8, 0 - 200, 16, 16, 16), \* sniper towers
     Box(200, 8, 0 - 200, 16, 16, 16),
     Box(0 - 200, 8, 200, 16, 16, 16),
     Box(200, 8, 200, 16, 16, 16),
     Box(0 - 40, 3, 0 - 120, 12, 6, 40),   \* low walls
     Box(40, 3, 120, 12, 6, 40),
     Box(0 - 200, 2, 0, 24, 4, 48),        \* platforms
     Box(200, 2, 0, 24, 4, 48) >>

\* ------------------------------------------------------------ state
VARIABLES
  conn,      \* socket id -> "none" | "open" | "closed"
  players,   \* the players object: socket id -> player record
  bullets,   \* the bullets object: bullet id -> bullet record
  bulletId,  \* the next bullet id
  gameOver,
  winner,
  timers,    \* pending setTimeout callbacks, oldest first
  out,       \* what the step just taken emitted, in order
  tickNo,    \* physics ticks run so far, where the run bounds them
  bound,     \* the bounds of the run: [shots, inFlight, flight, draws, ticks]
  fault,     \* an exception has escaped a handler or a loop: the process is gone
  ticked     \* the stores as the last physics tick left them, where the run keeps them

vars == <<conn, players, bullets, bulletId, gameOver, winner, timers, out, tickNo, bound,
          fault, ticked>>

\* Whether a run keeps the stores of the last tick, and what it keeps.
NotKept == [kept |-> FALSE]
Kept(ps, bs) == [kept |-> TRUE, players |-> ps, bullets |-> bs]

NoWinner == "null"

\* JavaScript values of the payload fields that are stored as they come: a
\* number, a string (the sequence of its characters), or undefined.
Num(n) == [t |-> "number", v |-> n]
Str(cs) == [t |-> "string", v |-> cs]
Undefined == [t |-> "undefined"]

\* What "name || ..." takes for true.
Truthy(val) ==
  CASE val.t = "number" -> val.v # 0
    [] val.t = "string" -> val.v # <<>>
    [] OTHER -> FALSE

Abs(n) == IF n < 0 THEN 0 - n ELSE n
Sign(n) == IF n > 0 THEN 1 ELSE IF n < 0 THEN 0 - 1 ELSE 0
Max(a, b) == IF a >= b THEN a ELSE b
Min(a, b) == IF a <= b THEN a ELSE b

\* ------------------------------------------------------------ helpers
\* randomSpawn(): any of the spawn points.
randomSpawn == {SPAWN_POINTS[i] : i \in 1..Min(bound.draws, Len(SPAWN_POINTS))}

\* Cylinder-AABB collision (XZ plane only, for player movement).
playerCollidesBox(px, py, pz, box) ==
  IF py + PLAYER_H < box.y - box.h \/ py > box.y + box.h
  THEN FALSE
  ELSE LET cx == Max(box.x - box.w, Min(px, box.x + box.w))
           cz == Max(box.z - box.d, Min(pz, box.z + box.d))
           dx == px - cx
           dz == pz - cz
       \* the squares are taken only where they are below PLAYER_R^2: a
       \* larger |dx| or |dz| already decides the comparison
       IN /\ Abs(dx) < PLAYER_R
          /\ Abs(dz) < PLAYER_R
          /\ dx * dx + dz * dz < PLAYER_R * PLAYER_R

\* Push-out along the axis of the larger overlap.
ResolveBoxFarSide(p, box) ==
  IF ~playerCollidesBox(p.x, p.y, p.z, box)
  THEN p
  ELSE IF p.y < box.y + box.h /\ p.vy <= 0
       THEN [p EXCEPT !.y = box.y + box.h, !.vy = 0, !.onGround = TRUE]
       ELSE LET dx == p.x - box.x
                dz == p.z - box.z
                overlapX == box.w + PLAYER_R - Abs(dx)
                overlapZ == box.d + PLAYER_R - Abs(dz)
            IN IF overlapX > overlapZ
               THEN [p EXCEPT !.x = p.x + overlapX * Sign(dx), !.vx = 0]
               ELSE [p EXCEPT !.z = p.z + overlapZ * Sign(dz), !.vz = 0]

\* Step-up that leaves onGround as the floor test set it.
ResolveBoxNoGround(p, box) ==
  IF ~playerCollidesBox(p.x, p.y, p.z, box)
  THEN p
  ELSE IF p.y < box.y + box.h /\ p.vy <= 0
       THEN [p EXCEPT !.y = box.y + box.h, !.vy = 0]
       ELSE LET dx == p.x - box.x
                dz == p.z - box.z
                overlapX == box.w + PLAYER_R - Abs(dx)
                overlapZ == box.d + PLAYER_R - Abs(dz)
            IN IF overlapX < overlapZ
               THEN [p EXCEPT !.x = p.x + overlapX * Sign(dx), !.vx = 0]
               ELSE [p EXCEPT !.z = p.z + overlapZ * Sign(dz), !.vz = 0]

\* The body of resolvePlayerCollisions' loop for one box.
ResolveBox(p, box) ==
  IF ~playerCollidesBox(p.x, p.y, p.z, box)
  THEN p
  ELSE IF p.y < box.y + box.h /\ p.vy <= 0
       THEN [p EXCEPT !.y = box.y + box.h, !.vy = 0, !.onGround = TRUE]
       ELSE LET dx == p.x - box.x
                dz == p.z - box.z
                overlapX == box.w + PLAYER_R - Abs(dx)
                overlapZ == box.d + PLAYER_R - Abs(dz)
            IN IF overlapX < overlapZ
               THEN [p EXCEPT !.x = p.x + overlapX * Sign(dx), !.vx = 0]
               ELSE [p EXCEPT !.z = p.z + overlapZ * Sign(dz), !.vz = 0]

RECURSIVE ResolveFrom(_, _)
ResolveFrom(p, i) ==
  IF i > Len(MAP_BOXES) THEN p ELSE ResolveFrom(ResolveBox(p, MAP_BOXES[i]), i + 1)

\* One pass over MAP_BOXES, in order.
resolvePlayerCollisions(p) == ResolveFrom(p, 1)

\* Map boundary clamp.
ClampToMap(p) ==
  [p EXCEPT !.x = Max(PLAYER_R - MAP_W, Min(MAP_W - PLAYER_R, p.x)),
            !.z = Max(PLAYER_R - MAP_D, Min(MAP_D - PLAYER_R, p.z))]

\* Input velocity, gravity and floor of the physics loop, for a living player.
Integrate(p) ==
  LET vy1 == p.vy + GRAVITY
      y1 == p.y + vy1
      q == [p EXCEPT !.x = p.x + p.vx, !.z = p.z + p.vz]
  IN IF y1 <= 0
     THEN [q EXCEPT !.y = 0, !.vy = 0, !.onGround = TRUE]
     ELSE [q EXCEPT !.y = y1, !.vy = vy1, !.onGround = FALSE]

\* The "Move players" loop body of the physics loop.
MovePlayer(p) ==
  IF ~p.alive THEN p ELSE resolvePlayerCollisions(ClampToMap(Integrate(p)))

\* ------------------------------------------------------------ socket events
Soldier == <<"S", "o", "l", "d", "i", "e", "r">>

\* The display name stored whole.
DisplayNameUncut(name) == IF name = <<>> THEN Soldier ELSE name

\* (name || 'Soldier').substring(0, 16)
DisplayName(name) ==
  LET n == IF name = <<>> THEN Soldier ELSE name
  IN SubSeq(n, 1, Min(16, Len(n)))

\* The record the join handler stores.
NewPlayer(id, name, character, sp) ==
  LET ch == CHARACTERS[character]
  IN [id |-> id, name |-> DisplayName(name), character |-> character,
      x |-> sp.x, y |-> 0, z |-> sp.z, vx |-> 0, vy |-> 0, vz |-> 0,
      yaw |-> Num(0), pitch |-> Num(0),
      speed |-> ch.speed, health |-> ch.maxHp, maxHp |-> ch.maxHp,
      damage |-> ch.damage, fireRateMs |-> ch.fireRateMs,
      reloadMs |-> ch.reloadMs, maxAmmo |-> ch.maxAmmo, ammo |-> ch.maxAmmo,
      sinceShot |-> ch.fireRateMs,
      alive |-> TRUE, kills |-> 0, reloading |-> FALSE, onGround |-> TRUE]

Put(f, k, v) == [j \in DOMAIN f \cup {k} |-> IF j = k THEN v ELSE f[j]]
Drop(f, k) == [j \in DOMAIN f \ {k} |-> f[j]]

\* io.on('connection'): the socket opens and is sent the map.
Connect(id) ==
  /\ conn[id] = "none"
  /\ conn' = [conn EXCEPT ![id] = "open"]
  /\ out' = <<[ev |-> "map_data", to |-> id]>>
  /\ UNCHANGED <<players, bullets, bulletId, gameOver, winner, timers, tickNo, bound, fault, ticked>>

\* The join handler.  A name that "||" takes for true and that is not a
\* string has no substring method: the TypeError escapes the handler.
Join(id, name, character) ==
  /\ conn[id] = "open"
  /\ IF Truthy(name) /\ name.t # "string"
     THEN /\ fault' = TRUE
          /\ out' = <<>>
          /\ UNCHANGED players
     ELSE LET ch == IF character \in CharNames THEN character ELSE DefaultChar
              shown == IF name.t = "string" THEN name.v ELSE <<>>
          IN /\ \E sp \in randomSpawn :
                  players' = Put(players, id, NewPlayer(id, shown, ch, sp))
             /\ out' = <<[ev |-> "joined", to |-> id, id |-> id],
                         [ev |-> "player_joined", to |-> "all", name |-> name,
                          character |-> ch]>>
             /\ UNCHANGED fault
  /\ UNCHANGED <<conn, bullets, bulletId, gameOver, winner, timers, tickNo, bound, ticked>>

\* A join, mv or shoot event that arrives without an argument: the handler's
\* parameter destructures undefined, and the TypeError escapes it.
NoPayload(id) ==
  /\ conn[id] = "open"
  /\ fault' = TRUE
  /\ out' = <<>>
  /\ UNCHANGED <<conn, players, bullets, bulletId, gameOver, winner, timers, tickNo, bound, ticked>>

\* Math.sqrt, on the perfect squares the inputs are drawn from.
ISqrt(n) == CHOOSE r \in 0..n : r * r <= n /\ (r + 1) * (r + 1) > n

\* The mv handler with a jump that does not ask for the ground.
MvPlayerAnyJump(p, in) ==
  LET len == ISqrt(in.vx * in.vx + in.vz * in.vz)
      q == IF len > 0
           THEN [p EXCEPT !.vx = (in.vx * p.speed) \div len, !.vz = (in.vz * p.speed) \div len]
           ELSE [p EXCEPT !.vx = 0, !.vz = 0]
      r == [q EXCEPT !.yaw = in.yaw, !.pitch = in.pitch]
  IN IF in.jump
     THEN [r EXCEPT !.vy = JUMP_FORCE, !.onGround = FALSE]
     ELSE r

\* What the mv handler makes of a player record.
MvPlayer(p, in) ==
  LET len == ISqrt(in.vx * in.vx + in.vz * in.vz)
      q == IF len > 0
           THEN [p EXCEPT !.vx = (in.vx * p.speed) \div len, !.vz = (in.vz * p.speed) \div len]
           ELSE [p EXCEPT !.vx = 0, !.vz = 0]
      r == [q EXCEPT !.yaw = in.yaw, !.pitch = in.pitch]
  IN IF in.jump /\ r.onGround
     THEN [r EXCEPT !.vy = JUMP_FORCE, !.onGround = FALSE]
     ELSE r

Mv(id, in) ==
  /\ conn[id] = "open"
  /\ players' = IF id \in DOMAIN players /\ players[id].alive
                THEN [players EXCEPT ![id] = MvPlayer(players[id], in)]
                ELSE players
  /\ out' = <<>>
  /\ UNCHANGED <<conn, bullets, bulletId, gameOver, winner, timers, tickNo, bound, fault, ticked>>

\* setTimeout(callback, ms): the timer list is kept in order of expiry, and
\* among timers that expire together in order of creation.
setTimeout(ts, kind, id, ms) ==
  LET n == Cardinality({i \in 1..Len(ts) : ts[i].ms <= ms})
  IN SubSeq(ts, 1, n) \o <<[kind |-> kind, id |-> id, ms |-> ms]>> \o SubSeq(ts, n + 1, Len(ts))

\* startReload that sets the timer and leaves the flag.
startReloadNoFlag(ps, ts, id) ==
  IF id \notin DOMAIN ps
  THEN [players |-> ps, timers |-> ts]
  ELSE [players |-> ps, timers |-> setTimeout(ts, "reload", id, ps[id].reloadMs)]

\* startReload that sets the flag and no timer.
startReloadNoTimer(ps, ts, id) ==
  IF id \notin DOMAIN ps
  THEN [players |-> ps, timers |-> ts]
  ELSE [players |-> [ps EXCEPT ![id].reloading = TRUE], timers |-> ts]

\* startReload(id): the reloading flag and the timer.
startReload(ps, ts, id) ==
  IF id \notin DOMAIN ps
  THEN [players |-> ps, timers |-> ts]
  ELSE [players |-> [ps EXCEPT ![id].reloading = TRUE],
        timers |-> setTimeout(ts, "reload", id, ps[id].reloadMs)]

\* Shoot guards without "p.reloading" and "p.ammo <= 0".
CanShootAnyAmmo(id) ==
  /\ id \in DOMAIN players
  /\ players[id].alive
  /\ ~(players[id].sinceShot < players[id].fireRateMs)

\* Shoot guards without the fire-rate test.
CanShootAnyRate(id) ==
  /\ id \in DOMAIN players
  /\ players[id].alive
  /\ ~players[id].reloading
  /\ players[id].ammo > 0

\* The guards of the shoot handler: the request is dropped unless this holds.
CanShoot(id) ==
  /\ id \in DOMAIN players
  /\ players[id].alive
  /\ ~players[id].reloading
  /\ players[id].ammo > 0
  /\ ~(players[id].sinceShot < players[id].fireRateMs)

\* Every archetype firing a single projectile.
pelletsOfOne(p) == 1

pelletsOf(p) == IF p.character = "Chesney" THEN PELLETS ELSE 1

\* The bullets one accepted shot adds: ids bulletId .. bulletId + pellets - 1.
NewBullets(p) ==
  [b \in bulletId .. (bulletId + pelletsOf(p) - 1) |->
     [id |-> b, ownerId |-> p.id,
      damage |-> IF p.character = "Chesney" THEN p.damage \div pelletsOf(p) ELSE p.damage,
      dist |-> 0]]

Merge(f, g) == [k \in DOMAIN f \cup DOMAIN g |-> IF k \in DOMAIN g THEN g[k] ELSE f[k]]

\* Shots the bounded run still has ids and room for.
ShotBase == IF bulletId >= MatchPointShots THEN MatchPointShots ELSE 0
HasIds(n) ==
  /\ bulletId + n <= ShotBase + bound.shots
  /\ Cardinality(DOMAIN bullets) + n <= bound.inFlight

\* The shoot handler charging one round for each projectile.
ShootPerPellet(id) ==
  /\ conn[id] = "open"
  /\ IF CanShoot(id)
     THEN LET p == players[id]
              shot == [players EXCEPT ![id].sinceShot = 0,
                                      ![id].ammo = p.ammo - pelletsOf(p)]
              rl == IF shot[id].ammo <= 0
                    THEN startReload(shot, timers, id)
                    ELSE [players |-> shot, timers |-> timers]
          IN /\ HasIds(pelletsOf(p))
             /\ players' = rl.players
             /\ timers' = rl.timers
             /\ bullets' = Merge(bullets, NewBullets(p))
             /\ bulletId' = bulletId + pelletsOf(p)
     ELSE UNCHANGED <<players, timers, bullets, bulletId>>
  /\ out' = <<>>
  /\ UNCHANGED <<conn, gameOver, winner, tickNo, bound, fault, ticked>>

Shoot(id) ==
  /\ conn[id] = "open"
  /\ IF CanShoot(id)
     THEN LET p == players[id]
              shot == [players EXCEPT ![id].sinceShot = 0, ![id].ammo = p.ammo - 1]
              rl == IF shot[id].ammo <= 0
                    THEN startReload(shot, timers, id)
                    ELSE [players |-> shot, timers |-> timers]
          IN /\ HasIds(pelletsOf(p))
             /\ players' = rl.players
             /\ timers' = rl.timers
             /\ bullets' = Merge(bullets, NewBullets(p))
             /\ bulletId' = bulletId + pelletsOf(p)
     ELSE UNCHANGED <<players, timers, bullets, bulletId>>
  /\ out' = <<>>
  /\ UNCHANGED <<conn, gameOver, winner, tickNo, bound, fault, ticked>>

\* The reload handler without its guards.
ReloadAlways(id) ==
  /\ conn[id] = "open"
  /\ IF id \notin DOMAIN players
     THEN UNCHANGED <<players, timers>>
     ELSE LET rl == startReload(players, timers, id)
          IN players' = rl.players /\ timers' = rl.timers
  /\ out' = <<>>
  /\ UNCHANGED <<conn, bullets, bulletId, gameOver, winner, tickNo, bound, fault, ticked>>

Reload(id) ==
  /\ conn[id] = "open"
  /\ IF id \notin DOMAIN players \/ players[id].reloading
        \/ players[id].ammo >= players[id].maxAmmo
     THEN UNCHANGED <<players, timers>>
     ELSE LET rl == startReload(players, timers, id)
          IN players' = rl.players /\ timers' = rl.timers
  /\ out' = <<>>
  /\ UNCHANGED <<conn, bullets, bulletId, gameOver, winner, tickNo, bound, fault, ticked>>

\* The reset without "reloading: false".
ResetPlayerKeepReload(p, sp) ==
  [p EXCEPT !.x = sp.x, !.y = 0, !.z = sp.z, !.vx = 0, !.vy = 0, !.vz = 0,
            !.health = p.maxHp, !.alive = TRUE, !.kills = 0,
            !.ammo = p.maxAmmo]

\* The reset without "kills: 0".
ResetPlayerKeepKills(p, sp) ==
  [p EXCEPT !.x = sp.x, !.y = 0, !.z = sp.z, !.vx = 0, !.vy = 0, !.vz = 0,
            !.health = p.maxHp, !.alive = TRUE,
            !.ammo = p.maxAmmo, !.reloading = FALSE]

\* Object.assign of the new_game handler, for one player.
ResetPlayer(p, sp) ==
  [p EXCEPT !.x = sp.x, !.y = 0, !.z = sp.z, !.vx = 0, !.vy = 0, !.vz = 0,
            !.health = p.maxHp, !.alive = TRUE, !.kills = 0,
            !.ammo = p.maxAmmo, !.reloading = FALSE]

\* The new_game handler without "if (!gameOver) return".
NewGameAlways(id) ==
  /\ conn[id] = "open"
  /\ gameOver' = FALSE
  /\ winner' = NoWinner
  /\ bullets' = <<>>
  /\ \E sp \in [DOMAIN players -> randomSpawn] :
       players' = [k \in DOMAIN players |-> ResetPlayer(players[k], sp[k])]
  /\ out' = <<[ev |-> "game_reset", to |-> "all"]>>
  /\ UNCHANGED <<conn, bulletId, timers, tickNo, bound, fault, ticked>>

\* The new_game handler with "bulletId = 0" among its resets.
NewGameResetIds(id) ==
  /\ conn[id] = "open"
  /\ IF ~gameOver
     THEN /\ UNCHANGED <<gameOver, winner, bullets, players, bulletId>>
          /\ out' = <<>>
     ELSE /\ gameOver' = FALSE
          /\ winner' = NoWinner
          /\ bullets' = <<>>
          /\ bulletId' = 0
          /\ \E sp \in [DOMAIN players -> randomSpawn] :
               players' = [k \in DOMAIN players |-> ResetPlayer(players[k], sp[k])]
          /\ out' = <<[ev |-> "game_reset", to |-> "all"]>>
  /\ UNCHANGED <<conn, timers, tickNo, bound, fault, ticked>>

NewGame(id) ==
  /\ conn[id] = "open"
  /\ IF ~gameOver
     THEN /\ UNCHANGED <<gameOver, winner, bullets, players>>
          /\ out' = <<>>
     ELSE /\ gameOver' = FALSE
          /\ winner' = NoWinner
          /\ bullets' = <<>>
          /\ \E sp \in [DOMAIN players -> randomSpawn] :
               players' = [k \in DOMAIN players |-> ResetPlayer(players[k], sp[k])]
          /\ out' = <<[ev |-> "game_reset", to |-> "all"]>>
  /\ UNCHANGED <<conn, bulletId, timers, tickNo, bound, fault, ticked>>

Disconnect(id) ==
  /\ conn[id] = "open"
  /\ conn' = [conn EXCEPT ![id] = "closed"]
  /\ out' = IF id \in DOMAIN players
            THEN <<[ev |-> "player_left", to |-> "all", name |-> players[id].name]>>
            ELSE <<>>
  /\ players' = Drop(players, id)
  /\ UNCHANGED <<bullets, bulletId, gameOver, winner, timers, tickNo, bound, fault, ticked>>

\* ------------------------------------------------------------ timers
\* The respawn setTimeout callback.
RespawnPlayer(p, sp) ==
  [p EXCEPT !.x = sp.x, !.y = 0, !.z = sp.z, !.vx = 0, !.vy = 0, !.vz = 0,
            !.health = p.maxHp, !.alive = TRUE, !.ammo = p.maxAmmo]

\* The reload callback clearing the flag and leaving the magazine.
ReloadPlayerNoRefill(p) == [p EXCEPT !.reloading = FALSE]

\* The reload setTimeout callback.
ReloadPlayer(p) == [p EXCEPT !.ammo = p.maxAmmo, !.reloading = FALSE]

RemoveAt(sq, i) == SubSeq(sq, 1, i - 1) \o SubSeq(sq, i + 1, Len(sq))

\* Timer callbacks without "if (!players[id]) return": the callback of a
\* player that has left stores a record for it.
FireTimerNoCheck(i) ==
  /\ i \in 1..Len(timers)
  /\ timers[i].ms = 0
  /\ timers' = RemoveAt(timers, i)
  /\ LET t == timers[i]
         p == IF t.id \in DOMAIN players
              THEN players[t.id]
              ELSE NewPlayer(t.id, <<>>, DefaultChar, SPAWN_POINTS[1])
     IN IF t.kind = "respawn"
        THEN /\ \E sp \in randomSpawn : players' = Put(players, t.id, RespawnPlayer(p, sp))
             /\ out' = <<[ev |-> "respawn", to |-> "all", id |-> t.id]>>
        ELSE /\ players' = Put(players, t.id, ReloadPlayer(p))
             /\ out' = <<[ev |-> "reload_done", to |-> t.id]>>
  /\ UNCHANGED <<conn, bullets, bulletId, gameOver, winner, tickNo, bound, fault, ticked>>

\* A timer whose delay has elapsed runs its callback.
FireTimer(i) ==
  /\ i \in 1..Len(timers)
  /\ timers[i].ms = 0
  /\ timers' = RemoveAt(timers, i)
  /\ LET t == timers[i]
     IN IF t.id \notin DOMAIN players
        THEN /\ players' = players
             /\ out' = <<>>
        ELSE IF t.kind = "respawn"
             THEN /\ \E sp \in randomSpawn :
                       players' = [players EXCEPT ![t.id] = RespawnPlayer(players[t.id], sp)]
                  /\ out' = <<[ev |-> "respawn", to |-> "all", id |-> t.id]>>
             ELSE /\ players' = [players EXCEPT ![t.id] = ReloadPlayer(players[t.id])]
                  /\ out' = <<[ev |-> "reload_done", to |-> t.id]>>
  /\ UNCHANGED <<conn, bullets, bulletId, gameOver, winner, tickNo, bound, fault, ticked>>

\* The delays after which something changes: a timer runs out, a fire-rate
\* interval ends.
Delays ==
  {timers[i].ms : i \in 1..Len(timers)}
    \cup {players[k].fireRateMs - players[k].sinceShot : k \in DOMAIN players}

\* The clock moves to the next such instant.
NextDelay ==
  LET ds == {d \in Delays : d > 0}
  IN IF ds = {} THEN {} ELSE {CHOOSE m \in ds : \A n \in ds : m <= n}

\* d milliseconds pass; no timer is overdue.
Advance(d) ==
  /\ d > 0
  /\ \A i \in 1..Len(timers) : timers[i].ms >= d
  /\ timers' = [i \in 1..Len(timers) |-> [timers[i] EXCEPT !.ms = timers[i].ms - d]]
  /\ players' = [k \in DOMAIN players |->
                   [players[k] EXCEPT !.sinceShot = Min(players[k].fireRateMs, players[k].sinceShot + d)]]
  /\ out' = <<>>
  /\ UNCHANGED <<conn, bullets, bulletId, gameOver, winner, tickNo, bound, fault, ticked>>

\* ------------------------------------------------------------ physics loop
\* A hit that only subtracts the damage: no "p.health <= 0" branch.
HitPlayerNoPin(st, b, pid) ==
  [st EXCEPT !.players[pid].health = st.players[pid].health - b.damage,
             !.bullets = Drop(st.bullets, b.id),
             !.out = Append(st.out, [ev |-> "hit", to |-> pid,
                                     health |-> Max(0, st.players[pid].health - b.damage)])]

\* A hit that kills without scheduling the respawn.
HitPlayerNoTimer(st, b, pid) ==
  LET h == st.players[pid].health - b.damage
      hitMsg == [ev |-> "hit", to |-> pid, health |-> Max(0, h)]
      gone == [st EXCEPT !.bullets = Drop(st.bullets, b.id), !.out = Append(st.out, hitMsg)]
  IN IF h > 0
     THEN [gone EXCEPT !.players[pid].health = h]
     ELSE [gone EXCEPT !.players[pid].health = 0, !.players[pid].alive = FALSE]

\* A hit without the "shooter.kills >= WINS_REQUIRED" branch.
HitPlayerNoWin(st, b, pid) ==
  LET p == st.players[pid]
      h == p.health - b.damage
      hitMsg == [ev |-> "hit", to |-> pid, health |-> Max(0, h)]
      gone == [st EXCEPT !.bullets = Drop(st.bullets, b.id), !.out = Append(st.out, hitMsg)]
  IN IF h > 0
     THEN [gone EXCEPT !.players[pid].health = h]
     ELSE LET dead == [gone EXCEPT !.players[pid].health = 0, !.players[pid].alive = FALSE,
                                   !.timers = setTimeout(st.timers, "respawn", pid, RESPAWN_MS)]
          IN IF b.ownerId \notin DOMAIN st.players
             THEN dead
             ELSE [dead EXCEPT
                     !.players[b.ownerId].kills = st.players[b.ownerId].kills + 1,
                     !.out = Append(dead.out,
                               [ev |-> "kill_feed", to |-> "all",
                                killer |-> st.players[b.ownerId].name, victim |-> p.name,
                                killerChar |-> st.players[b.ownerId].character])]

\* A hit that kills without "shooter.kills++" and the kill_feed.
HitPlayerNoCredit(st, b, pid) ==
  LET h == st.players[pid].health - b.damage
      hitMsg == [ev |-> "hit", to |-> pid, health |-> Max(0, h)]
      gone == [st EXCEPT !.bullets = Drop(st.bullets, b.id), !.out = Append(st.out, hitMsg)]
  IN IF h > 0
     THEN [gone EXCEPT !.players[pid].health = h]
     ELSE [gone EXCEPT !.players[pid].health = 0, !.players[pid].alive = FALSE,
                       !.timers = setTimeout(st.timers, "respawn", pid, RESPAWN_MS)]

\* Lines 255-286: projectile b hits player pid.  st holds the loop's state.
HitPlayer(st, b, pid) ==
  LET p == st.players[pid]
      h == p.health - b.damage
      hitMsg == [ev |-> "hit", to |-> pid, health |-> Max(0, h)]
      gone == [st EXCEPT !.bullets = Drop(st.bullets, b.id)]
  IN IF h > 0
     THEN [gone EXCEPT !.players[pid].health = h, !.out = Append(st.out, hitMsg)]
     ELSE LET dead == [st.players EXCEPT ![pid].health = 0, ![pid].alive = FALSE]
              timed == setTimeout(st.timers, "respawn", pid, RESPAWN_MS)
              base == [gone EXCEPT !.players = dead, !.timers = timed,
                                   !.out = Append(st.out, hitMsg)]
          IN IF b.ownerId \notin DOMAIN st.players
             THEN base
             ELSE LET shooter == dead[b.ownerId]
                      kills == shooter.kills + 1
                      feed == [ev |-> "kill_feed", to |-> "all", killer |-> shooter.name,
                               victim |-> p.name, killerChar |-> shooter.character]
                      credited == [base EXCEPT !.players[b.ownerId].kills = kills,
                                               !.out = Append(base.out, feed)]
                  IN IF kills >= WINS_REQUIRED
                     THEN [credited EXCEPT
                             !.gameOver = TRUE, !.winner = shooter.name,
                             !.out = Append(credited.out,
                                       [ev |-> "game_over", to |-> "all",
                                        winner |-> shooter.name,
                                        character |-> shooter.character])]
                     ELSE credited

\* The hit loop without "if (pid === b.ownerId || !p.alive) continue".
CanHitAnyone(ps, b, pid) == pid \in DOMAIN ps

\* Whether the hit loop of projectile b stops at player pid.
CanHit(ps, b, pid) == pid \in DOMAIN ps /\ pid # b.ownerId /\ ps[pid].alive

\* Lines 228-289 for one projectile, whose fate is "fly", "gone" (out of the
\* envelope or inside a box) or the player within the hit radius.
StepBullet(st, bid, fate) ==
  LET b == [st.bullets[bid] EXCEPT !.dist = st.bullets[bid].dist + BULLET_STEP]
  IN IF b.dist > BULLET_MAX_DIST \/ fate = "gone"
     THEN [st EXCEPT !.bullets = Drop(st.bullets, bid)]
     ELSE IF CanHit(st.players, b, fate)
          THEN HitPlayer(st, b, fate)
          ELSE [st EXCEPT !.bullets[bid] = b]

SetMin(S) == CHOOSE m \in S : \A n \in S : m <= n

\* "for (const id in bullets)": integer keys, in ascending order.
RECURSIVE BulletLoop(_, _, _)
BulletLoop(st, ids, fates) ==
  IF ids = {}
  THEN st
  ELSE LET bid == SetMin(ids)
       IN BulletLoop(StepBullet(st, bid, fates[bid]), ids \ {bid}, fates)

Fates == {"fly", "gone"} \cup RangeIds

\* The fates a tick may draw: a projectile flies on only within cap ticks of
\* flight, and is within the hit radius only of a player the loop tests.
Admissible(fates, ps, cap) ==
  \A bid \in DOMAIN bullets :
    /\ fates[bid] = "fly" => bullets[bid].dist + BULLET_STEP < cap * BULLET_STEP
    /\ fates[bid] \in RangeIds => CanHit(ps, bullets[bid], fates[bid])

\* The fates open to projectile b alone, and the draws of a fate for each
\* projectile in ids built from them.
FatesOf(ps, b, cap) ==
  {f \in Fates :
     /\ f = "fly" => b.dist + BULLET_STEP < cap * BULLET_STEP
     /\ f \in RangeIds => CanHit(ps, b, f)}

RECURSIVE FateMaps(_, _, _)
FateMaps(ids, ps, cap) ==
  IF ids = {}
  THEN {<<>>}
  ELSE LET bid == SetMin(ids)
       IN {Put(m, bid, f) : m \in FateMaps(ids \ {bid}, ps, cap),
                            f \in FatesOf(ps, bullets[bid], cap)}

\* "for (const id in players)": the move loop, one player after the other.
RECURSIVE MoveLoop(_, _)
MoveLoop(ps, ids) ==
  IF ids = {}
  THEN ps
  ELSE LET k == CHOOSE j \in ids : TRUE
       IN MoveLoop([ps EXCEPT ![k] = MovePlayer(ps[k])], ids \ {k})

\* What the bullet loop works on: the game state with the players as moved,
\* and nothing emitted yet.
LoopState(ps) ==
  [players |-> ps, bullets |-> bullets, gameOver |-> gameOver, winner |-> winner,
   timers |-> timers, out |-> <<>>]

\* The physics loop without "if (gameOver) return".
TickBodyNoGuard(cap) ==
  \E moved \in {MoveLoop(players, DOMAIN players)} :
  \E fates \in FateMaps(DOMAIN bullets, moved, cap) :
    /\ Admissible(fates, moved, cap)
    /\ \E st \in {BulletLoop(LoopState(moved), DOMAIN bullets, fates)} :
         /\ players' = st.players
         /\ bullets' = st.bullets
         /\ gameOver' = st.gameOver
         /\ winner' = st.winner
         /\ timers' = st.timers
         /\ out' = st.out

\* The setInterval callback of the physics loop.
TickBody(cap) ==
  IF gameOver
  THEN /\ UNCHANGED <<players, bullets, gameOver, winner, timers>>
       /\ out' = <<>>
  ELSE \E moved \in {MoveLoop(players, DOMAIN players)} :
       \E fates \in FateMaps(DOMAIN bullets, moved, cap) :
         /\ Admissible(fates, moved, cap)
         /\ \E st \in {BulletLoop(LoopState(moved), DOMAIN bullets, fates)} :
              /\ players' = st.players
              /\ bullets' = st.bullets
              /\ gameOver' = st.gameOver
              /\ winner' = st.winner
              /\ timers' = st.timers
              /\ out' = st.out

Tick ==
  /\ bound.ticks > 0 => tickNo < bound.ticks
  /\ TickBody(bound.flight)
  /\ tickNo' = IF bound.ticks > 0 THEN tickNo + 1 ELSE tickNo
  /\ ticked' = IF ticked.kept THEN Kept(players', bullets') ELSE ticked
  /\ UNCHANGED <<conn, bulletId, bound, fault>>

\* ------------------------------------------------------------ broadcast loop
\* +x.toFixed(2) of a length, in hundredths of a world unit.
ToFixed2(x) == Sign(x) * ((Abs(x) * 100 + Scale \div 2) \div Scale)

\* "p.health | 0": whole hit points.
WholeHp(h) == h \div PELLETS

\* The snapshot's entry for player record p, whose yaw and pitch are numbers.
Packed(p) ==
  [id |-> p.id, x |-> ToFixed2(p.x), y |-> ToFixed2(p.y), z |-> ToFixed2(p.z),
   yaw |-> p.yaw.v, pitch |-> p.pitch.v,
   hp |-> WholeHp(p.health), maxHp |-> WholeHp(p.maxHp), alive |-> p.alive,
   kills |-> p.kills, ammo |-> p.ammo, maxAmmo |-> p.maxAmmo,
   reloading |-> p.reloading, name |-> p.name, character |-> p.character,
   onGround |-> p.onGround]

\* The broadcast loop without "if (gameOver) return".
BroadcastAlways ==
  /\ IF \E k \in DOMAIN players :
          players[k].yaw.t # "number" \/ players[k].pitch.t # "number"
     THEN out' = <<>> /\ fault' = TRUE
     ELSE /\ out' = <<[ev |-> "gs", to |-> "all",
                       players |-> [k \in DOMAIN players |-> Packed(players[k])],
                       bullets |-> [b \in DOMAIN bullets |-> [id |-> b]]]>>
          /\ UNCHANGED fault
  /\ UNCHANGED <<conn, players, bullets, bulletId, gameOver, winner, timers, tickNo, bound,
                 ticked>>

\* A broadcast loop that packs the stores as the last physics tick left them.
BroadcastLastTick ==
  /\ IF gameOver \/ ~ticked.kept
     THEN out' = <<>>
     ELSE out' = <<[ev |-> "gs", to |-> "all",
                    players |-> [k \in DOMAIN ticked.players |-> Packed(ticked.players[k])],
                    bullets |-> [b \in DOMAIN ticked.bullets |-> [id |-> b]]]>>
  /\ UNCHANGED <<conn, players, bullets, bulletId, gameOver, winner, timers, tickNo, bound,
                 fault, ticked>>

\* The setInterval callback of the broadcast loop.  toFixed exists on
\* numbers only: a stored yaw or pitch of another type throws, and the
\* TypeError escapes the callback.  (Of a projectile only the id is kept.)
Broadcast ==
  /\ IF gameOver
     THEN out' = <<>> /\ UNCHANGED fault
     ELSE IF \E k \in DOMAIN players :
               players[k].yaw.t # "number" \/ players[k].pitch.t # "number"
          THEN out' = <<>> /\ fault' = TRUE
          ELSE /\ out' = <<[ev |-> "gs", to |-> "all",
                            players |-> [k \in DOMAIN players |-> Packed(players[k])],
                            bullets |-> [b \in DOMAIN bullets |-> [id |-> b]]]>>
               /\ UNCHANGED fault
  /\ UNCHANGED <<conn, players, bullets, bulletId, gameOver, winner, timers, tickNo, bound, ticked>>

\* ------------------------------------------------------------ the server
\* Inputs of the bounded run.
NameInputs == {Str(<<>>)}
CharInputs == {"Fischer"}
\* mv: no direction, no jump.
MvStill == {[vx |-> 0, vz |-> 0, yaw |-> Num(0), pitch |-> Num(0), jump |-> FALSE]}

\* ticks = 0: the ticks of the run are not counted.
CombatBound ==
  [shots |-> MaxShots, inFlight |-> MaxInFlight, flight |-> MaxFlight,
   draws |-> SpawnDraws, ticks |-> 0]

InitBoot(b) ==
  /\ bound = b
  /\ conn = [id \in Ids |-> "none"]
  /\ players = <<>>
  /\ bullets = <<>>
  /\ bulletId = 0
  /\ gameOver = FALSE
  /\ winner = NoWinner
  /\ timers = <<>>
  /\ out = <<>>
  /\ tickNo = 0
  /\ fault = FALSE
  /\ ticked = NotKept

\* A match one kill from its end: s1 has scored WINS_REQUIRED - 1 kills on
\* s2 with two hits each, has one round left, and s2 has taken one hit since
\* its last respawn; every timer has run out and no projectile is in flight.
InitMatchPoint(b) ==
  /\ bound = b
  /\ conn = [id \in Ids |-> "open"]
  /\ \E sp \in [Ids -> randomSpawn] :
       players =
         [id \in Ids |->
            LET p == NewPlayer(id, <<>>, "Fischer", sp[id])
            IN IF id = "s1"
               THEN [p EXCEPT !.kills = WINS_REQUIRED - 1, !.ammo = 1]
               ELSE [p EXCEPT !.health = p.maxHp - CHARACTERS["Fischer"].damage]]
  /\ bullets = <<>>
  /\ bulletId = MatchPointShots
  /\ gameOver = FALSE
  /\ winner = NoWinner
  /\ timers = <<>>
  /\ out = <<>>
  /\ tickNo = 0
  /\ fault = FALSE
  /\ ticked = NotKept

Init == InitBoot(CombatBound) \/ InitMatchPoint(CombatBound)

Next ==
  \/ \E id \in Ids : Connect(id)
  \/ \E id \in Ids, name \in NameInputs, c \in CharInputs : Join(id, name, c)
  \/ \E id \in Ids, in \in MvStill : Mv(id, in)
  \/ \E id \in Shooters : Shoot(id)
  \/ \E id \in Shooters : Reload(id)
  \/ \E id \in Ids : NewGame(id)
  \/ \E id \in Ids : Disconnect(id)
  \/ Tick
  \/ \E i \in 1..Len(timers) : FireTimer(i)
  \/ \E d \in NextDelay : Advance(d)

Spec == Init /\ [][Next]_vars

\* ------------------------------------------------------------ progress
LiveBound ==
  [shots |-> LiveShots, inFlight |-> MaxInFlight, flight |-> MaxFlight,
   draws |-> LiveDraws, ticks |-> 0]

InitLive == InitBoot(LiveBound) \/ InitMatchPoint(LiveBound)

\* The clock advances, and the event loop runs a timer that is due.
Fairness ==
  /\ WF_vars(\E d \in NextDelay : Advance(d))
  /\ WF_vars(\E i \in 1..Len(timers) : FireTimer(i))

FairSpec == InitLive /\ [][Next]_vars /\ Fairness

\* ------------------------------------------------------------ both loops
NextCast ==
  \/ Next
  \/ Broadcast

SpecCast == InitLive /\ [][NextCast]_vars

\* ------------------------------------------------------------ any payload
RawBound ==
  [shots |-> 0, inFlight |-> 0, flight |-> MaxFlight, draws |-> RawDraws, ticks |-> 0]

\* join payloads: no name, the empty name, a short and a long name, a
\* number for a name; every archetype and a word that names none.
RawNames ==
  {Undefined, Str(<<>>), Str(<<"a">>), Str([i \in 1..LongName |-> "x"]), Num(5)}
RawChars == CharNames \cup {"Nobody"}

\* mv payloads: numbers, no yaw, a string for the pitch.
MvRaw ==
  MvStill \cup
  {[vx |-> 0, vz |-> 0, yaw |-> Undefined, pitch |-> Num(0), jump |-> FALSE],
   [vx |-> 0, vz |-> 0, yaw |-> Num(0), pitch |-> Str(<<"u", "p">>), jump |-> FALSE]}

\* One connection and the two loops; nothing runs once the process is gone.
NextRaw ==
  \/ ~fault /\ Connect("s1")
  \/ ~fault /\ \E name \in RawNames, c \in RawChars : Join("s1", name, c)
  \/ ~fault /\ NoPayload("s1")
  \/ ~fault /\ \E in \in MvRaw : Mv("s1", in)
  \/ ~fault /\ Disconnect("s1")
  \/ ~fault /\ Tick
  \/ ~fault /\ Broadcast

SpecRaw == InitBoot(RawBound) /\ [][NextRaw]_vars

\* ------------------------------------------------------------ every weapon
ArmsBound ==
  [shots |-> ArmsShots, inFlight |-> ArmsInFlight, flight |-> MaxFlight,
   draws |-> SpawnDraws, ticks |-> 0]

NextArms ==
  \/ Connect("s1")
  \/ \E name \in NameInputs, c \in RawChars : Join("s1", name, c)
  \/ Shoot("s1")
  \/ Tick
  \/ \E i \in 1..Len(timers) : FireTimer(i)
  \/ \E d \in NextDelay : Advance(d)

SpecArms == InitBoot(ArmsBound) /\ [][NextArms]_vars

\* ------------------------------------------------------------ both players firing
DuelBound ==
  [shots |-> DuelShots, inFlight |-> MaxInFlight, flight |-> MaxFlight,
   draws |-> SpawnDraws, ticks |-> 0]

\* A match in progress: MatchPointShots projectiles have been fired, each
\* player has used one round of the magazine it holds, s2 has taken one
\* hit, nobody has scored; every timer has run out and no projectile is in
\* flight.
InitDuel ==
  /\ bound = DuelBound
  /\ conn = [id \in Ids |-> "open"]
  /\ \E sp \in [Ids -> randomSpawn] :
       players =
         [id \in Ids |->
            LET p == NewPlayer(id, <<>>, "Fischer", sp[id])
            IN [p EXCEPT !.ammo = p.maxAmmo - 1,
                         !.health = IF id = "s2" THEN p.maxHp - p.damage ELSE p.maxHp]]
  /\ bullets = <<>>
  /\ bulletId = MatchPointShots
  /\ gameOver = FALSE
  /\ winner = NoWinner
  /\ timers = <<>>
  /\ out = <<>>
  /\ tickNo = 0
  /\ fault = FALSE
  /\ ticked = NotKept

NextDuel ==
  \/ \E id \in Ids, in \in MvStill : Mv(id, in)
  \/ \E id \in Ids : Shoot(id)
  \/ \E id \in Ids : Reload(id)
  \/ Tick
  \/ \E i \in 1..Len(timers) : FireTimer(i)
  \/ \E d \in NextDelay : Advance(d)

SpecDuel == InitDuel /\ [][NextDuel]_vars

\* ------------------------------------------------------------ one player moving
\* The player k ticks into a jump from the floor: k gravity steps on
\* vy = JUMP_FORCE, and the heights they add up to; at k = 0 the player
\* still stands on the floor, at rest.
JumpArc(k) ==
  [y |-> JUMP_FORCE * k + (GRAVITY * k * (k + 1)) \div 2,
   vy |-> IF k = 0 THEN 0 ELSE JUMP_FORCE + GRAVITY * k,
   onGround |-> k = 0]

\* Ticks into a jump at which a run starts: on the floor, just off it, just
\* under and falling back to the height of the platforms' top.
JumpPhases == {0, 1, 13, 27}

\* Where a run starts, a whole number of Fischer's steps from a spawn point
\* through free space: at the walls' north-east corner, at the east
\* platform's east face, and at that platform's north-east corner.
Tenth == Scale \div 10
FloorStarts ==
  {[x |-> 786 * Tenth, z |-> 786 * Tenth],
   [x |-> 564 * Tenth, z |-> 0],
   [x |-> 564 * Tenth, z |-> 124 * Tenth]}

\* On top of the north wall, at the boundary clamp.
WallTopStart ==
  [x |-> 0, z |-> MAP_D - PLAYER_R, y |-> MAP_BOXES[1].y + MAP_BOXES[1].h,
   vy |-> 0, onGround |-> TRUE]

StartStates ==
  {[x |-> f.x, z |-> f.z, y |-> JumpArc(k).y, vy |-> JumpArc(k).vy,
    onGround |-> JumpArc(k).onGround] : f \in FloorStarts, k \in JumpPhases}
    \cup {WallTopStart}

\* mv payloads: no direction, the four axes, and two diagonals of a 3-4-5
\* triangle; with and without jump.
MvPhys ==
  {[vx |-> d[1], vz |-> d[2], yaw |-> Num(0), pitch |-> Num(0), jump |-> j] :
     d \in {<<0, 0>>, <<1, 0>>, <<0 - 1, 0>>, <<0, 1>>, <<0, 0 - 1>>,
            <<3, 4>>, <<0 - 3, 0 - 4>>},
     j \in BOOLEAN}

PhysBound ==
  [shots |-> 0, inFlight |-> 0, flight |-> MaxFlight, draws |-> SpawnDraws,
   ticks |-> MaxTicks]

InitPhys ==
  /\ bound = PhysBound
  /\ conn = [id \in Ids |-> IF id = "s1" THEN "open" ELSE "none"]
  /\ \E s \in StartStates :
       players = [id \in {"s1"} |->
                    [NewPlayer(id, <<>>, "Fischer", [x |-> s.x, z |-> s.z])
                       EXCEPT !.y = s.y, !.vy = s.vy, !.onGround = s.onGround]]
  /\ bullets = <<>>
  /\ bulletId = 0
  /\ gameOver = FALSE
  /\ winner = NoWinner
  /\ timers = <<>>
  /\ out = <<>>
  /\ tickNo = 0
  /\ fault = FALSE
  /\ ticked = NotKept

NextPhys ==
  \/ \E in \in MvPhys : Mv("s1", in)
  \/ Tick

SpecPhys == InitPhys /\ [][NextPhys]_vars

\* ------------------------------------------------------------ projectile geometry
\* The shoot handler and the bullet loop with the positions they compute.  A
\* projectile here also holds its position (x, y, z) and its direction
\* (dx, dy, dz), whose components are counted in 1/DirUnit.
DirUnit == 5
\* PLAYER_H * 0.85, the 1.2 of the muzzle offset, the 0.8 of the hit test.
EyeHeight == (PLAYER_H * 85) \div 100
Muzzle == (12 * Scale) \div 10
HitRadius == (8 * Scale) \div 10

\* AABB vs point (for bullet hit on boxes).
pointInBox(px, py, pz, box) ==
  /\ Abs(px - box.x) <= box.w
  /\ Abs(py - box.y) <= box.h
  /\ Abs(pz - box.z) <= box.d

\* (sdx / len, sdy / len, sdz / len) with "len = Math.sqrt(...) || 1", for a
\* shot without spread.
Normalized(aim) ==
  LET l == ISqrt(aim.dx * aim.dx + aim.dy * aim.dy + aim.dz * aim.dz)
      len == IF l = 0 THEN DirUnit ELSE l
  IN [dx |-> (aim.dx * DirUnit) \div len,
      dy |-> (aim.dy * DirUnit) \div len,
      dz |-> (aim.dz * DirUnit) \div len]

\* The bullets one accepted shot without spread adds.
AimedBullets(p, aim) ==
  [b \in bulletId .. (bulletId + pelletsOf(p) - 1) |->
     [id |-> b, ownerId |-> p.id,
      x |-> p.x + (aim.dx * Muzzle) \div DirUnit,
      y |-> p.y + EyeHeight,
      z |-> p.z + (aim.dz * Muzzle) \div DirUnit,
      dx |-> Normalized(aim).dx, dy |-> Normalized(aim).dy, dz |-> Normalized(aim).dz,
      damage |-> IF p.character = "Chesney" THEN p.damage \div pelletsOf(p) ELSE p.damage,
      dist |-> 0]]

\* The shoot handler, for the archetypes whose spread is 0.
ShootAt(id, aim) ==
  /\ conn[id] = "open"
  /\ id \in DOMAIN players => players[id].character # "Chesney"
  /\ IF CanShoot(id)
     THEN LET p == players[id]
              shot == [players EXCEPT ![id].sinceShot = 0, ![id].ammo = p.ammo - 1]
              rl == IF shot[id].ammo <= 0
                    THEN startReload(shot, timers, id)
                    ELSE [players |-> shot, timers |-> timers]
          IN /\ HasIds(pelletsOf(p))
             /\ players' = rl.players
             /\ timers' = rl.timers
             /\ bullets' = Merge(bullets, AimedBullets(p, aim))
             /\ bulletId' = bulletId + pelletsOf(p)
     ELSE UNCHANGED <<players, timers, bullets, bulletId>>
  /\ out' = <<>>
  /\ UNCHANGED <<conn, gameOver, winner, tickNo, bound, fault, ticked>>

\* A step of flight that counts the way actually travelled: none for a
\* projectile without direction.
IntegratedPathOnly(b) ==
  [b EXCEPT !.x = b.x + (b.dx * BULLET_STEP) \div DirUnit,
            !.y = b.y + (b.dy * BULLET_STEP) \div DirUnit,
            !.z = b.z + (b.dz * BULLET_STEP) \div DirUnit,
            !.dist = b.dist + IF b.dx = 0 /\ b.dy = 0 /\ b.dz = 0
                              THEN 0 ELSE BULLET_STEP]

\* Lines 229-232: one step of flight.
Integrated(b) ==
  [b EXCEPT !.x = b.x + (b.dx * BULLET_STEP) \div DirUnit,
            !.y = b.y + (b.dy * BULLET_STEP) \div DirUnit,
            !.z = b.z + (b.dz * BULLET_STEP) \div DirUnit,
            !.dist = b.dist + BULLET_STEP]

\* The bounds test without "b.dist > BULLET_MAX_DIST".
OutOfRangeNoDist(b) ==
  \/ Abs(b.x) > MAP_W + 5 * Scale
  \/ Abs(b.z) > MAP_D + 5 * Scale
  \/ b.y < 0 - 2 * Scale
  \/ b.y > 30 * Scale

\* Lines 235-236: out of bounds or max distance.
OutOfRange(b) ==
  \/ b.dist > BULLET_MAX_DIST
  \/ Abs(b.x) > MAP_W + 5 * Scale
  \/ Abs(b.z) > MAP_D + 5 * Scale
  \/ b.y < 0 - 2 * Scale
  \/ b.y > 30 * Scale

\* Lines 241-244: hit a map box.
HitsBox(b) ==
  \E i \in 1..Len(MAP_BOXES) : pointInBox(b.x, b.y, b.z, MAP_BOXES[i])

\* Lines 252-253: the projectile is within the hit radius of the player's
\* torso point.  (A component of HitRadius or more rules the hit out, and
\* keeps the squares small.)
Near(b, p) ==
  LET dx == p.x - b.x
      dy == (p.y + PLAYER_H \div 2) - b.y
      dz == p.z - b.z
  IN /\ Abs(dx) < HitRadius /\ Abs(dy) < HitRadius /\ Abs(dz) < HitRadius
     /\ dx * dx + dy * dy + dz * dz < HitRadius * HitRadius

\* The hit test taken where the projectile was before its step of flight.
TargetsBefore(ps, b) ==
  LET o == [b EXCEPT !.x = b.x - (b.dx * BULLET_STEP) \div DirUnit,
                     !.y = b.y - (b.dy * BULLET_STEP) \div DirUnit,
                     !.z = b.z - (b.dz * BULLET_STEP) \div DirUnit]
  IN {pid \in DOMAIN ps : CanHit(ps, b, pid) /\ Near(o, ps[pid])}

\* The players the hit loop of projectile b can stop at.
Targets(ps, b) == {pid \in DOMAIN ps : CanHit(ps, b, pid) /\ Near(b, ps[pid])}

\* "for (const id in bullets)" with positions: the states the loop can end
\* in.  The hit loop walks the players in the order of their joins, which is
\* not kept here: of several players within the hit radius any may be the
\* first.
RECURSIVE ShotLoop(_, _)
ShotLoop(st, ids) ==
  IF ids = {}
  THEN {st}
  ELSE LET bid == SetMin(ids)
           b == Integrated(st.bullets[bid])
           rest == ids \ {bid}
       IN IF OutOfRange(b) \/ HitsBox(b)
          THEN ShotLoop([st EXCEPT !.bullets = Drop(st.bullets, bid)], rest)
          ELSE IF Targets(st.players, b) = {}
               THEN ShotLoop([st EXCEPT !.bullets[bid] = b], rest)
               ELSE UNION {ShotLoop(HitPlayer([st EXCEPT !.bullets[bid] = b], b, pid), rest) :
                             pid \in Targets(st.players, b)}

\* The physics loop with its two loops in the other order: the bullets are
\* updated against the players where they stood, then the players move.
ShotTickBulletsFirst ==
  IF gameOver
  THEN /\ UNCHANGED <<players, bullets, gameOver, winner, timers>>
       /\ out' = <<>>
  ELSE \E st \in ShotLoop(LoopState(players), DOMAIN bullets) :
         /\ players' = MoveLoop(st.players, DOMAIN st.players)
         /\ bullets' = st.bullets
         /\ gameOver' = st.gameOver
         /\ winner' = st.winner
         /\ timers' = st.timers
         /\ out' = st.out

\* The setInterval callback of the physics loop, with positions.
ShotTickBody ==
  IF gameOver
  THEN /\ UNCHANGED <<players, bullets, gameOver, winner, timers>>
       /\ out' = <<>>
  ELSE \E moved \in {MoveLoop(players, DOMAIN players)} :
       \E st \in ShotLoop(LoopState(moved), DOMAIN bullets) :
         /\ players' = st.players
         /\ bullets' = st.bullets
         /\ gameOver' = st.gameOver
         /\ winner' = st.winner
         /\ timers' = st.timers
         /\ out' = st.out

TickShot ==
  /\ bound.ticks > 0 => tickNo < bound.ticks
  /\ ShotTickBody
  /\ tickNo' = IF bound.ticks > 0 THEN tickNo + 1 ELSE tickNo
  /\ ticked' = IF ticked.kept THEN Kept(players', bullets') ELSE ticked
  /\ UNCHANGED <<conn, bulletId, bound, fault>>

\* fire payloads: level to the north, no direction at all, level to the
\* south (into the wall), and up over the south wall.
AimInputs ==
  {[dx |-> 0, dy |-> 0, dz |-> 5],
   [dx |-> 0, dy |-> 0, dz |-> 0],
   [dx |-> 0, dy |-> 0, dz |-> 0 - 5],
   [dx |-> 0, dy |-> 3, dz |-> 0 - 4]}

RangeBound ==
  [shots |-> RangeShots, inFlight |-> RangeInFlight, flight |-> MaxFlight,
   draws |-> SpawnDraws, ticks |-> 0]

\* A match in progress on a shooting range: s1 stands on the spawn point
\* (60, -60); s2 and s3 have walked south from the spawn point (60, 60) in
\* whole steps of a Fischer and stand StandOff and StandOff + 2 tenths north
\* of s1.  MatchPointShots projectiles have been fired, s1 has used one round
\* of its magazine, s2 has taken one hit, nobody has scored; every timer has
\* run out and no projectile is in flight.
StandOff == 40
InitRange ==
  /\ bound = RangeBound
  /\ conn = [id \in RangeIds |-> "open"]
  /\ players =
       [id \in RangeIds |->
          LET p == NewPlayer(id, <<>>, "Fischer", SPAWN_POINTS[2])
          IN CASE id = "s1" -> [p EXCEPT !.ammo = p.maxAmmo - 1]
               [] id = "s2" -> [p EXCEPT !.z = p.z + StandOff * Tenth,
                                         !.health = p.maxHp - p.damage]
               [] id = "s3" -> [p EXCEPT !.z = p.z + (StandOff + 2) * Tenth]]
  /\ bullets = <<>>
  /\ bulletId = MatchPointShots
  /\ gameOver = FALSE
  /\ winner = NoWinner
  /\ timers = <<>>
  /\ out = <<>>
  /\ tickNo = 0
  /\ fault = FALSE
  /\ ticked = NotKept

NextRange ==
  \/ \E aim \in AimInputs : ShootAt("s1", aim)
  \/ TickShot
  \/ \E i \in 1..Len(timers) : FireTimer(i)
  \/ \E d \in NextDelay : Advance(d)

SpecRange == InitRange /\ [][NextRange]_vars

\* ------------------------------------------------------------ the deciding shot
\* The shooting range at match point: as InitRange, with s1 one kill short
\* of the threshold, so that the hit that kills s2 ends the match.
InitDecider ==
  /\ bound = RangeBound
  /\ conn = [id \in RangeIds |-> "open"]
  /\ players =
       [id \in RangeIds |->
          LET p == NewPlayer(id, <<>>, "Fischer", SPAWN_POINTS[2])
          IN CASE id = "s1" -> [p EXCEPT !.ammo = p.maxAmmo - 1,
                                         !.kills = WINS_REQUIRED - 1]
               [] id = "s2" -> [p EXCEPT !.z = p.z + StandOff * Tenth,
                                         !.health = p.maxHp - p.damage]
               [] id = "s3" -> [p EXCEPT !.z = p.z + (StandOff + 2) * Tenth]]
  /\ bullets = <<>>
  /\ bulletId = MatchPointShots
  /\ gameOver = FALSE
  /\ winner = NoWinner
  /\ timers = <<>>
  /\ out = <<>>
  /\ tickNo = 0
  /\ fault = FALSE
  /\ ticked = NotKept

NextDecider ==
  \/ \E aim \in AimInputs : ShootAt("s1", aim)
  \/ TickShot
  \/ NewGame("s2")
  \/ \E i \in 1..Len(timers) : FireTimer(i)
  \/ \E d \in NextDelay : Advance(d)

SpecDecider == InitDecider /\ [][NextDecider]_vars

\* ------------------------------------------------------------ a moving target
\* mv payloads of s2: towards s1, away from it, no direction.
MvDodge ==
  {[vx |-> 0, vz |-> d, yaw |-> Num(0), pitch |-> Num(0), jump |-> FALSE] :
     d \in {0 - 1, 0, 1}}

DodgeBound ==
  [shots |-> DodgeShots, inFlight |-> MaxInFlight, flight |-> MaxFlight,
   draws |-> SpawnDraws, ticks |-> DodgeTicks]

\* s1 stands on the spawn point (60, -60) and s2, having walked south from
\* the spawn point (60, 60) in whole steps of a Fischer, PointBlank tenths
\* north of it, just short of the muzzle; no shot has been fired.  The run
\* keeps the stores of the last physics tick, which left them as they are.
PointBlank == 13
InitDodge ==
  /\ bound = DodgeBound
  /\ conn = [id \in Ids |-> "open"]
  /\ players =
       [id \in Ids |->
          LET p == NewPlayer(id, <<>>, "Fischer", SPAWN_POINTS[2])
          IN IF id = "s1" THEN p ELSE [p EXCEPT !.z = p.z + PointBlank * Tenth]]
  /\ bullets = <<>>
  /\ bulletId = 0
  /\ gameOver = FALSE
  /\ winner = NoWinner
  /\ timers = <<>>
  /\ out = <<>>
  /\ tickNo = 0
  /\ fault = FALSE
  /\ ticked = Kept(players, bullets)

NextDodge ==
  \/ \E in \in MvDodge : Mv("s2", in)
  \/ ShootAt("s1", [dx |-> 0, dy |-> 0, dz |-> 5])
  \/ TickShot
  \/ Broadcast

SpecDodge == InitDodge /\ [][NextDodge]_vars

\* ------------------------------------------------------------ a volley at match point
FinaleBound ==
  [shots |-> FinaleShots, inFlight |-> FinaleInFlight, flight |-> MaxFlight,
   draws |-> SpawnDraws, ticks |-> 0]

\* Match point for a shotgun: s1 (Chesney) is one kill short of the
\* threshold and holds two rounds; s2 and s3 are each one pellet from death.
InitFinale ==
  /\ bound = FinaleBound
  /\ conn = [id \in RangeIds |-> "open"]
  /\ \E sp \in [RangeIds -> randomSpawn] :
       players =
         [id \in RangeIds |->
            IF id = "s1"
            THEN [NewPlayer(id, <<>>, "Chesney", sp[id])
                    EXCEPT !.kills = WINS_REQUIRED - 1, !.ammo = 2]
            ELSE [NewPlayer(id, <<>>, "Fischer", sp[id])
                    EXCEPT !.health = CHARACTERS["Chesney"].damage \div PELLETS]]
  /\ bullets = <<>>
  /\ bulletId = MatchPointShots
  /\ gameOver = FALSE
  /\ winner = NoWinner
  /\ timers = <<>>
  /\ out = <<>>
  /\ tickNo = 0
  /\ fault = FALSE
  /\ ticked = NotKept

NextFinale ==
  \/ Shoot("s1")
  \/ Tick
  \/ NewGame("s2")
  \/ \E i \in 1..Len(timers) : FireTimer(i)
  \/ \E d \in NextDelay : Advance(d)

SpecFinale == InitFinale /\ [][NextFinale]_vars

\* ------------------------------------------------------------ properties
\* C1: every player record has 0 <= health <= maxHp, and is alive exactly
\* when its health is above 0, in every state the events can produce.
C1_HealthRange ==
  \A id \in DOMAIN players :
    /\ 0 <= players[id].health
    /\ players[id].health <= players[id].maxHp
    /\ players[id].alive <=> players[id].health > 0

\* A tick has just killed a player whose health the hit would have taken
\* below 0: Fischer's 70 against the 20 left.
C1_Witness ==
  \E id \in DOMAIN players :
    /\ ~players[id].alive
    /\ players[id].health = 0
    /\ \E i \in 1..Len(out) : out[i].ev = "hit" /\ out[i].to = id /\ out[i].health = 0

\* C2: every player record has 0 <= ammo <= maxAmmo in every reachable state.
C2_AmmoRange ==
  \A id \in DOMAIN players :
    0 <= players[id].ammo /\ players[id].ammo <= players[id].maxAmmo

\* The last round has been fired and the reload it starts is pending.
C2_Witness ==
  \E id \in DOMAIN players :
    /\ players[id].ammo = 0
    /\ players[id].reloading
    /\ \E i \in 1..Len(timers) : timers[i].kind = "reload" /\ timers[i].id = id

\* A kill_feed broadcast among msgs that names killer and victim.
Fed(msgs, killer, victim) ==
  \E i \in 1..Len(msgs) :
    /\ msgs[i].ev = "kill_feed"
    /\ msgs[i].to = "all"
    /\ msgs[i].killer = killer
    /\ msgs[i].victim = victim

\* The hits the next tick can make that take a living player's health to 0
\* or below: projectile bid on player pid.
Lethal(bid, pid) ==
  /\ CanHit(players, bullets[bid], pid)
  /\ players[pid].health - bullets[bid].damage <= 0

\* C5 (as amended): a projectile hit that takes a living player's health to
\* 0 or below leaves the victim with health 0 and alive false in that tick;
\* if the projectile's owner still has a player record, the owner's kill
\* count goes up by exactly 1 and a kill_feed naming owner and victim is
\* broadcast; if the owner has left, no kill is counted for anyone and no
\* kill_feed is sent.
C5_KillCredited ==
  \A bid \in DOMAIN bullets, pid \in DOMAIN players :
    Lethal(bid, pid) =>
      LET b == bullets[bid]
          r == HitPlayer(LoopState(players), b, pid)
      IN /\ r.players[pid].health = 0
         /\ ~r.players[pid].alive
         /\ IF b.ownerId \in DOMAIN players
            THEN /\ r.players[b.ownerId].kills = players[b.ownerId].kills + 1
                 /\ Fed(r.out, players[b.ownerId].name, players[pid].name)
            ELSE /\ \A k \in DOMAIN players : r.players[k].kills = players[k].kills
                 /\ \A i \in 1..Len(r.out) : r.out[i].ev # "kill_feed"

\* C5 as stated: every such hit counts a kill for the projectile's owner and
\* broadcasts the kill_feed.
C5_AsStated ==
  \A bid \in DOMAIN bullets, pid \in DOMAIN players :
    Lethal(bid, pid) =>
      LET b == bullets[bid]
          r == HitPlayer(LoopState(players), b, pid)
      IN /\ r.players[pid].health = 0
         /\ ~r.players[pid].alive
         /\ b.ownerId \in DOMAIN r.players
         /\ r.players[b.ownerId].kills = players[b.ownerId].kills + 1
         /\ Fed(r.out, players[b.ownerId].name, players[pid].name)

\* A tick has just killed a player and credited the owner: the hit with
\* health 0 is followed by the kill_feed, and the killer's count is above 0.
C5_Witness ==
  \E i \in 1..Len(out) :
    /\ out[i].ev = "hit"
    /\ out[i].health = 0
    /\ out[i].to \in DOMAIN players
    /\ ~players[out[i].to].alive
    /\ i < Len(out)
    /\ out[i + 1].ev = "kill_feed"
    /\ \E k \in DOMAIN players : players[k].kills > 0 /\ players[k].name = out[i + 1].killer

\* The timers of one kind pending for player id.
Pending(ts, kind, id) == {i \in 1..Len(ts) : ts[i].kind = kind /\ ts[i].id = id}

\* C8: a step in which a shot takes a player's ammo to 0 sets reloading and
\* schedules exactly one reload timer; a step in which a reload timer of a
\* player with a record runs leaves ammo = maxAmmo and reloading false, and
\* emits exactly one notification, a reload_done addressed to that player.
C8_ReloadCycle ==
  [][/\ \A id \in DOMAIN players \cap DOMAIN players' :
          players[id].ammo > 0 /\ players'[id].ammo = 0 =>
            /\ players'[id].reloading
            /\ Cardinality(Pending(timers', "reload", id))
                 = Cardinality(Pending(timers, "reload", id)) + 1
     /\ \A i \in 1..Len(timers) :
          /\ timers[i].ms = 0
          /\ timers[i].kind = "reload"
          /\ timers[i].id \in DOMAIN players
          /\ timers' = RemoveAt(timers, i)
          => /\ players'[timers[i].id].ammo = players'[timers[i].id].maxAmmo
             /\ ~players'[timers[i].id].reloading
             /\ out' = <<[ev |-> "reload_done", to |-> timers[i].id]>>]_vars

\* A reload that a shot to ammo 0 started has just completed: the player
\* got its reload_done and holds a full magazine.
C8_Witness ==
  /\ Len(out) = 1
  /\ out[1].ev = "reload_done"
  /\ out[1].to \in DOMAIN players
  /\ players[out[1].to].ammo = players[out[1].to].maxAmmo
  /\ ~players[out[1].to].reloading
  /\ bulletId = MatchPointShots + 1

\* The conditions under which C10 says a fire request is dropped.
Rejected(id) ==
  /\ id \in DOMAIN players
  /\ \/ players[id].reloading
     \/ players[id].ammo = 0
     \/ players[id].sinceShot < players[id].fireRateMs

\* C10: a fire request of a player that is reloading, has ammo 0, or fired
\* its last accepted shot less than fireRateMs ago changes nothing: players
\* (ammo, lastShot), bullets, bulletId and timers stay, nothing is emitted.
C10_RejectedShot ==
  [][\A id \in Ids :
       Shoot(id) /\ Rejected(id) =>
         /\ UNCHANGED <<conn, players, bullets, bulletId, gameOver, winner, timers>>
         /\ out' = <<>>]_vars

\* A player that has just fired its last round: reloading, ammo 0 and inside
\* the fire-rate interval at once, with its connection open to ask again.
C10_Witness ==
  \E id \in Shooters :
    /\ conn[id] = "open"
    /\ Rejected(id)
    /\ players[id].reloading
    /\ players[id].ammo = 0
    /\ players[id].sinceShot < players[id].fireRateMs

\* C7 as stated: when a respawn timer revives a dead player, RESPAWN_MS has
\* passed since that death, so no respawn timer of that player is still
\* running.
C7_AsStated ==
  [][\A id \in DOMAIN players \cap DOMAIN players' :
       /\ ~players[id].alive
       /\ players'[id].alive
       /\ \E i \in 1..Len(out') : out'[i].ev = "respawn" /\ out'[i].id = id
       => \A i \in Pending(timers', "respawn", id) : timers'[i].ms = 0]_vars

\* C9 as stated: a reload_done goes only to a player that is reloading.
C9_AsStated ==
  [][\A i \in 1..Len(out') :
       out'[i].ev = "reload_done" =>
         /\ out'[i].to \in DOMAIN players
         /\ players[out'[i].to].reloading]_vars

Collides(p, i) == playerCollidesBox(p.x, p.y, p.z, MAP_BOXES[i])

\* C4: after a tick has run resolvePlayerCollisions for a living player, for
\* every box either the player does not collide with it, or the player's y
\* is the box's top and onGround is true.
C4_Resolved ==
  [][tickNo' # tickNo =>
       \A id \in DOMAIN players' :
         players'[id].alive =>
           \A i \in 1..Len(MAP_BOXES) :
             \/ ~Collides(players'[id], i)
             \/ /\ players'[id].y = MAP_BOXES[i].y + MAP_BOXES[i].h
                /\ players'[id].onGround]_vars

\* A tick has put a player on the east platform's top.
C4_Witness ==
  \E id \in DOMAIN players :
    /\ tickNo > 0
    /\ Collides(players[id], Len(MAP_BOXES))
    /\ players[id].y = MAP_BOXES[Len(MAP_BOXES)].y + MAP_BOXES[Len(MAP_BOXES)].h
    /\ players[id].onGround

\* C6: a player that is dead is eventually alive again or has left, whether
\* or not the match is over; and a step in which the respawn timer of a
\* player with a record runs leaves that player alive with health = maxHp,
\* ammo = maxAmmo, zero velocity and y = 0 at one of SPAWN_POINTS, and emits
\* the respawn broadcast carrying its id.
C6_Respawn ==
  /\ \A id \in Ids :
       (id \in DOMAIN players /\ ~players[id].alive)
         ~> (id \notin DOMAIN players \/ players[id].alive)
  /\ [][\A i \in 1..Len(timers) :
          /\ timers[i].ms = 0
          /\ timers[i].kind = "respawn"
          /\ timers[i].id \in DOMAIN players
          /\ timers' = RemoveAt(timers, i)
          => LET q == players'[timers[i].id]
             IN /\ q.alive
                /\ q.health = q.maxHp
                /\ q.ammo = q.maxAmmo
                /\ q.vx = 0 /\ q.vy = 0 /\ q.vz = 0
                /\ q.y = 0
                /\ \E j \in 1..Len(SPAWN_POINTS) :
                     SPAWN_POINTS[j].x = q.x /\ SPAWN_POINTS[j].z = q.z
                /\ out' = <<[ev |-> "respawn", to |-> "all", id |-> timers[i].id]>>]_vars

\* The respawn timer has just revived the player whose death ended the
\* match, while the match is still over.
C6_Witness ==
  /\ gameOver
  /\ Len(out) = 1
  /\ out[1].ev = "respawn"
  /\ out[1].id \in DOMAIN players
  /\ players[out[1].id].alive
  /\ players[out[1].id].health = players[out[1].id].maxHp

\* C11: a reload request of a player that is already reloading, or whose
\* ammo is maxAmmo, changes nothing and schedules no timer; so the requests
\* repeated during one reload add no second completion to the one pending.
C11_ReloadIdempotent ==
  [][\A id \in Ids :
       /\ Reload(id)
       /\ id \in DOMAIN players
       /\ players[id].reloading \/ players[id].ammo = players[id].maxAmmo
       => /\ UNCHANGED <<conn, players, bullets, bulletId, gameOver, winner, timers>>
          /\ out' = <<>>]_vars

\* A player in the middle of a reload, with the one timer of that reload
\* pending and its connection open to ask again.
C11_Witness ==
  \E id \in Shooters :
    /\ conn[id] = "open"
    /\ id \in DOMAIN players
    /\ players[id].reloading
    /\ players[id].ammo < players[id].maxAmmo
    /\ Cardinality(Pending(timers, "reload", id)) = 1
    /\ \A i \in Pending(timers, "reload", id) : timers[i].ms > 0

\* C12: a lethal hit that takes the kill count of the projectile's owner to
\* WINS_REQUIRED (15) sets game-over with the owner's name as winner, and
\* broadcasts a game_over carrying that name and the owner's archetype.
C12_WinAtThreshold ==
  \A bid \in DOMAIN bullets, pid \in DOMAIN players :
    /\ Lethal(bid, pid)
    /\ bullets[bid].ownerId \in DOMAIN players
    /\ players[bullets[bid].ownerId].kills + 1 = 15
    => LET o == players[bullets[bid].ownerId]
           r == HitPlayer(LoopState(players), bullets[bid], pid)
       IN /\ r.gameOver
          /\ r.winner = o.name
          /\ \E i \in 1..Len(r.out) :
               /\ r.out[i].ev = "game_over"
               /\ r.out[i].to = "all"
               /\ r.out[i].winner = o.name
               /\ r.out[i].character = o.character

\* A tick has just scored the fifteenth kill: the match is over, the winner
\* is the killer, and the tick's last broadcast is the game_over.
C12_Witness ==
  /\ gameOver
  /\ Len(out) = 3
  /\ out[3].ev = "game_over"
  /\ out[3].winner = winner
  /\ \E k \in DOMAIN players : players[k].kills = 15 /\ players[k].name = winner

\* C13: a physics tick that runs while the match is game-over changes no
\* player and no projectile (and no match state or timer).
C13_FrozenTick ==
  [][gameOver /\ Tick =>
       UNCHANGED <<players, bullets, gameOver, winner, timers, bulletId>>]_vars

\* The match is over with a projectile in flight and a player on the map.
C13_Witness ==
  /\ gameOver
  /\ DOMAIN bullets # {}
  /\ DOMAIN players # {}
  /\ out = <<>>

\* C14: a new_game request that arrives while the match is game-over leaves
\* every player with kills 0, health = maxHp, ammo = maxAmmo, alive, not
\* reloading, zero velocity and at one of SPAWN_POINTS; no projectile is
\* left, game-over is false, the winner is cleared, and game_reset is
\* broadcast.
C14_NewGameResets ==
  [][gameOver /\ (\E id \in Ids : NewGame(id)) =>
       /\ \A k \in DOMAIN players' :
            LET q == players'[k]
            IN /\ q.kills = 0
               /\ q.health = q.maxHp
               /\ q.ammo = q.maxAmmo
               /\ q.alive
               /\ ~q.reloading
               /\ q.vx = 0 /\ q.vy = 0 /\ q.vz = 0
               /\ \E j \in 1..Len(SPAWN_POINTS) :
                    SPAWN_POINTS[j].x = q.x /\ SPAWN_POINTS[j].z = q.z
       /\ DOMAIN players' = DOMAIN players
       /\ bullets' = <<>>
       /\ ~gameOver'
       /\ winner' = NoWinner
       /\ out' = <<[ev |-> "game_reset", to |-> "all"]>>]_vars

\* A new_game has just reset a match that had ended.
C14_Witness ==
  /\ out = <<[ev |-> "game_reset", to |-> "all"]>>
  /\ ~gameOver
  /\ winner = NoWinner
  /\ \E k \in DOMAIN players : players[k].kills = 0

\* C15: a new_game request that arrives while the match is not game-over
\* changes nothing and emits nothing.
C15_NewGameIgnored ==
  [][~gameOver /\ (\E id \in Ids : NewGame(id)) =>
       /\ UNCHANGED <<conn, players, bullets, bulletId, gameOver, winner, timers>>
       /\ out' = <<>>]_vars

\* A match in progress that a new_game would wipe: a kill is on the board,
\* a projectile is in flight, and a connection is open to send the request.
C15_Witness ==
  /\ ~gameOver
  /\ \E id \in Ids : conn[id] = "open"
  /\ \E k \in DOMAIN players : players[k].kills > 0
  /\ DOMAIN bullets # {}

\* C17: a step in which a respawn or reload timer runs whose player has
\* disconnected changes no state but the timer list, and emits nothing.
C17_TimerAfterLeave ==
  [][\A i \in 1..Len(timers) :
       /\ timers[i].ms = 0
       /\ timers[i].id \notin DOMAIN players
       /\ timers' = RemoveAt(timers, i)
       => /\ UNCHANGED <<conn, players, bullets, bulletId, gameOver, winner>>
          /\ out' = <<>>]_vars

\* A respawn timer and a reload timer are both due, or about to be, for
\* players whose connections have closed.
C17_Witness ==
  /\ \E i \in 1..Len(timers) :
       /\ timers[i].kind = "respawn"
       /\ timers[i].ms = 0
       /\ conn[timers[i].id] = "closed"
       /\ timers[i].id \notin DOMAIN players
  /\ \E i \in 1..Len(timers) :
       /\ timers[i].kind = "reload"
       /\ conn[timers[i].id] = "closed"
       /\ timers[i].id \notin DOMAIN players

\* C16: an accepted fire request of Chesney creates exactly 6 projectiles, each
\* of one sixth of the archetype's base damage; an accepted fire request of any
\* other archetype creates exactly one projectile of the full base damage.
\* Every created projectile is owned by the requester and has distance 0.
C16_PelletsPerShot ==
  [][\A id \in Ids :
       Shoot(id) /\ bulletId' # bulletId =>
         LET new == DOMAIN bullets' \ DOMAIN bullets
             shotgun == players[id].character = "Chesney"
             base == CHARACTERS[players[id].character].damage
         IN /\ Cardinality(new) = IF shotgun THEN 6 ELSE 1
            /\ \A b \in new :
                 /\ bullets'[b].ownerId = id
                 /\ bullets'[b].dist = 0
                 /\ IF shotgun
                    THEN bullets'[b].damage * 6 = base
                    ELSE bullets'[b].damage = base]_vars

C16_Witness ==
  /\ "s1" \in DOMAIN players
  /\ players["s1"].character = "Chesney"
  /\ players["s1"].ammo = players["s1"].maxAmmo - 1
  /\ Cardinality({b \in DOMAIN bullets :
                    /\ bullets[b].ownerId = "s1"
                    /\ bullets[b].dist = 0
                    /\ bullets[b].damage * 6 = CHARACTERS["Chesney"].damage}) = 6

\* C18 as stated: a move, fire or reload request of a connection without a
\* player record, or whose player is dead, changes no player and no
\* projectile and schedules no timer.
C18_AsStated ==
  [][\A id \in Ids :
       /\ id \notin DOMAIN players \/ ~players[id].alive
       /\ \/ \E in \in MvStill : Mv(id, in)
          \/ Shoot(id)
          \/ Reload(id)
       => UNCHANGED <<players, bullets, bulletId, timers>>]_vars

\* C19 as stated: no inbound event, whatever its payload, puts the server in
\* a fault state, in the handler or in a later tick or broadcast.
C19_AsStated == fault = FALSE

C21_AsStated ==
  [][\A id \in DOMAIN players \cap DOMAIN players' :
       /\ players'[id].character = players[id].character
       /\ players'[id].maxHp = players[id].maxHp
       /\ players'[id].speed = players[id].speed
       /\ players'[id].damage = players[id].damage
       /\ players'[id].fireRateMs = players[id].fireRateMs
       /\ players'[id].reloadMs = players[id].reloadMs
       /\ players'[id].maxAmmo = players[id].maxAmmo]_vars

\* C22: projectile ids are handed out in strictly increasing order and never
\* again: every projectile in flight has an id below the counter, the counter
\* never goes down (a new_game reset included), and a projectile that
\* appears takes an id from the counter's old value on.
C22_FreshIds ==
  /\ [](\A b \in DOMAIN bullets : b < bulletId /\ bullets[b].id = b)
  /\ [][/\ bulletId' >= bulletId
        /\ \A b \in DOMAIN bullets' \ DOMAIN bullets : bulletId <= b /\ b < bulletId'
        /\ bulletId' - bulletId = Cardinality(DOMAIN bullets' \ DOMAIN bullets)]_vars

\* A new_game reset has just emptied the store; the ids handed out before it
\* stay below the counter.
C22_Witness ==
  /\ Len(out) = 1
  /\ out[1].ev = "game_reset"
  /\ bullets = <<>>
  /\ bulletId > MatchPointShots

\* C28 as stated: a kill count is never negative and never decreases, except
\* that a new_game reset sets it to 0.
C28_AsStated ==
  [][\A id \in DOMAIN players \cap DOMAIN players' :
       /\ players[id].kills >= 0
       /\ \/ players'[id].kills >= players[id].kills
          \/ gameOver /\ ~gameOver' /\ players'[id].kills = 0]_vars

\* C30 as stated: the position, velocity, look angles and grounded flag of a
\* dead player change only when its respawn timer runs or new_game resets
\* the match.
C30_AsStated ==
  [][\A id \in DOMAIN players \cap DOMAIN players' :
       ~players[id].alive =>
         \/ /\ players'[id].x = players[id].x
            /\ players'[id].y = players[id].y
            /\ players'[id].z = players[id].z
            /\ players'[id].vx = players[id].vx
            /\ players'[id].vy = players[id].vy
            /\ players'[id].vz = players[id].vz
            /\ players'[id].yaw = players[id].yaw
            /\ players'[id].pitch = players[id].pitch
            /\ players'[id].onGround = players[id].onGround
         \/ \E i \in 1..Len(timers) :
              timers[i].kind = "respawn" /\ timers[i].id = id /\ FireTimer(i)
         \/ gameOver /\ ~gameOver']_vars

\* A physics tick that runs with projectiles in flight: the one step that
\* changes the projectile store while no id is handed out and the match is on.
BulletTick == ~gameOver /\ bulletId' = bulletId /\ bullets' # bullets

\* C23: after a physics tick that runs, every projectile still in the store
\* has travelled at most BULLET_MAX_DIST, lies within |x| <= MAP_W + 5,
\* |z| <= MAP_D + 5, -2 <= y <= 30 and in no level box; and a projectile whose
\* step of flight takes it beyond the range, out of that envelope, into a box
\* or within the hit radius of a living player other than its owner is gone
\* after that tick.
C23_BulletsInRange ==
  [][BulletTick =>
       /\ \A b \in DOMAIN bullets' :
            LET q == bullets'[b]
            IN /\ q.dist <= 120 * Scale
               /\ Abs(q.x) <= 85 * Scale /\ Abs(q.z) <= 85 * Scale
               /\ q.y >= 0 - 2 * Scale /\ q.y <= 30 * Scale
               /\ \A i \in 1..Len(MAP_BOXES) :
                    \/ Abs(q.x - MAP_BOXES[i].x) > MAP_BOXES[i].w
                    \/ Abs(q.y - MAP_BOXES[i].y) > MAP_BOXES[i].h
                    \/ Abs(q.z - MAP_BOXES[i].z) > MAP_BOXES[i].d
       /\ \A b \in DOMAIN bullets :
            LET o == bullets[b]
                qx == o.x + (o.dx * BULLET_SPEED * PHYSICS_HZ) \div DirUnit
                qy == o.y + (o.dy * BULLET_SPEED * PHYSICS_HZ) \div DirUnit
                qz == o.z + (o.dz * BULLET_SPEED * PHYSICS_HZ) \div DirUnit
                far == o.dist + BULLET_SPEED * PHYSICS_HZ > 120 * Scale
                outside == \/ Abs(qx) > 85 * Scale \/ Abs(qz) > 85 * Scale
                           \/ qy < 0 - 2 * Scale \/ qy > 30 * Scale
                boxed == \E i \in 1..Len(MAP_BOXES) :
                           /\ Abs(qx - MAP_BOXES[i].x) <= MAP_BOXES[i].w
                           /\ Abs(qy - MAP_BOXES[i].y) <= MAP_BOXES[i].h
                           /\ Abs(qz - MAP_BOXES[i].z) <= MAP_BOXES[i].d
                struck == \E pid \in DOMAIN players' :
                            /\ pid # o.ownerId
                            /\ players'[pid].alive
                            /\ Near([x |-> qx, y |-> qy, z |-> qz], players'[pid])
            IN far \/ outside \/ boxed \/ struck => b \notin DOMAIN bullets']_vars

\* A projectile at the very end of its range, in no box and struck by
\* nothing for 180 ticks.
C23_Witness ==
  \E b \in DOMAIN bullets :
    /\ bullets[b].dist = BULLET_MAX_DIST
    /\ bullets[b].ownerId = "s1"

\* C27: in a physics tick no dead player loses health, a player loses no
\* health to projectiles of its own, and no more players are hit than
\* projectiles are destroyed: a projectile hits one player at most.
C27_OneVictim ==
  [][BulletTick =>
       /\ \A pid \in DOMAIN players :
            players'[pid].health < players[pid].health => players[pid].alive
       /\ \A pid \in DOMAIN players :
            (\A b \in DOMAIN bullets : bullets[b].ownerId = pid)
              => players'[pid].health = players[pid].health
       /\ Cardinality({i \in 1..Len(out') : out'[i].ev = "hit"})
            <= Cardinality(DOMAIN bullets \ DOMAIN bullets')
       /\ Cardinality(DOMAIN bullets) = 1 =>
            Cardinality({pid \in DOMAIN players :
                           players'[pid].health # players[pid].health}) <= 1]_vars

\* s2 lies dead in the line of fire, and a projectile has gone past it and
\* hit s3, who stands behind.
C27_Witness ==
  /\ ~players["s2"].alive
  /\ players["s2"].z < players["s3"].z
  /\ \E i \in 1..Len(out) : out[i].ev = "hit" /\ out[i].to = "s3"
  /\ \A i \in 1..Len(out) : out[i].to # "s2"

\* Where projectile o is after one step of flight.
AfterStep(o) ==
  [x |-> o.x + (o.dx * BULLET_SPEED * PHYSICS_HZ) \div DirUnit,
   y |-> o.y + (o.dy * BULLET_SPEED * PHYSICS_HZ) \div DirUnit,
   z |-> o.z + (o.dz * BULLET_SPEED * PHYSICS_HZ) \div DirUnit]

\* The player a "hit" message of the step just taken went to.
HitOn(msgs, pid) == \E i \in 1..Len(msgs) : msgs[i].ev = "hit" /\ msgs[i].to = pid

\* Where a projectile that s1 fired level to the north from where it stands
\* is after k steps of flight.
Sample(k) ==
  [x |-> players["s1"].x, y |-> players["s1"].y + EyeHeight,
   z |-> players["s1"].z + Muzzle + k * BULLET_STEP]

\* C26 as stated: a player hit in a physics tick is within the hit radius,
\* at its position as updated in this tick, of where a destroyed projectile
\* was before this tick's step of flight.
C26_AsStated ==
  [][BulletTick =>
       \A pid \in DOMAIN players :
         HitOn(out', pid) =>
           \E b \in DOMAIN bullets \ DOMAIN bullets' : Near(bullets[b], players'[pid])]_vars

\* C26, amended: the position compared is the one after this tick's step of
\* flight.  A player hit in a physics tick is within the hit radius, at its
\* position as updated in this tick, of where a destroyed projectile is after
\* the step; and a projectile that stays in the store is, after the step,
\* within the hit radius of no living player but its owner.
C26_PostStepTest ==
  [][BulletTick =>
       /\ \A pid \in DOMAIN players :
            HitOn(out', pid) =>
              \E b \in DOMAIN bullets \ DOMAIN bullets' :
                Near(AfterStep(bullets[b]), players'[pid])
       /\ \A b \in DOMAIN bullets \cap DOMAIN bullets' :
            \A pid \in DOMAIN players' :
              pid # bullets[b].ownerId /\ players'[pid].alive =>
                ~Near(AfterStep(bullets[b]), players'[pid])]_vars

\* s2 has just been hit where it stands within the hit radius of a single
\* point of the projectile's path: the point before it was out of reach.
C26_Witness ==
  /\ HitOn(out, "s2")
  /\ \E k \in 1..(DodgeTicks + 1) :
       /\ Near(Sample(k), players["s2"])
       /\ \A j \in 0..(DodgeTicks + 1) : j # k => ~Near(Sample(j), players["s2"])

\* C29: in a physics tick every living player is moved and collision-resolved
\* before the projectiles are updated: after the tick it is where the move
\* takes it, and (one projectile in flight) it is hit exactly when the
\* projectile, after its step of flight and still in range and in no box, is
\* within the hit radius of that new position.
C29_PlayersFirst ==
  [][BulletTick /\ Cardinality(DOMAIN bullets) = 1 =>
       \A pid \in DOMAIN players :
         players[pid].alive =>
           LET m == MovePlayer(players[pid])
           IN /\ players'[pid].x = m.x /\ players'[pid].y = m.y /\ players'[pid].z = m.z
              /\ \A b \in DOMAIN bullets :
                   LET q == Integrated(bullets[b])
                   IN pid # q.ownerId /\ ~OutOfRange(q) /\ ~HitsBox(q) =>
                        (HitOn(out', pid) <=> Near(q, m))]_vars

\* s2 has just walked into a projectile: it is hit where it now stands, at
\* the first point of the projectile's path (no later point is in reach),
\* and where it stood before the tick that point was out of reach.
C29_Witness ==
  /\ HitOn(out, "s2")
  /\ players["s2"].vz # 0
  /\ Near(Sample(1), players["s2"])
  /\ ~Near(Sample(1), [players["s2"] EXCEPT !.z = players["s2"].z - players["s2"].vz])
  /\ \A j \in 2..DodgeTicks : ~Near(Sample(j), players["s2"])

\* C24: a snapshot is emitted only while the match is not over; it is one
\* message to all connections, with exactly one entry for each player record
\* and one for each projectile in the stores; and the step that emits it
\* leaves the players, the projectiles and the match state as they are.
C24_Snapshot ==
  [][(\E i \in 1..Len(out') : out'[i].ev = "gs") =>
       /\ ~gameOver
       /\ Len(out') = 1
       /\ out'[1].to = "all"
       /\ DOMAIN out'[1].players = DOMAIN players
       /\ \A k \in DOMAIN players : out'[1].players[k].id = k
       /\ DOMAIN out'[1].bullets = DOMAIN bullets
       /\ \A b \in DOMAIN bullets : out'[1].bullets[b].id = b
       /\ UNCHANGED <<players, bullets, bulletId, gameOver, winner, timers>>]_vars

\* A snapshot of two players and a projectile in flight.
C24_Witness ==
  /\ Len(out) = 1
  /\ out[1].ev = "gs"
  /\ DOMAIN out[1].players = {"s1", "s2"}
  /\ DOMAIN out[1].bullets # {}
  /\ DOMAIN out[1].bullets = DOMAIN bullets

\* C25 as stated: every snapshot equals the stores as the most recently
\* completed physics tick left them.
C25_AsStated ==
  [][\A i \in 1..Len(out') :
       out'[i].ev = "gs" =>
         /\ out'[i].players = [k \in DOMAIN ticked.players |-> Packed(ticked.players[k])]
         /\ DOMAIN out'[i].bullets = DOMAIN ticked.bullets]_vars

\* C25, amended: a physics tick is one step in which every living player
\* is moved and every projectile is advanced or removed; and every snapshot
\* equals the stores as they are when it is taken: as the last tick left them
\* and the handlers and timers that ran since have changed them.
C25_WholeTicks ==
  [][/\ \A i \in 1..Len(out') :
          out'[i].ev = "gs" =>
            /\ out'[i].players = [k \in DOMAIN players |-> Packed(players[k])]
            /\ DOMAIN out'[i].bullets = DOMAIN bullets
     /\ tickNo' # tickNo /\ ~gameOver =>
          /\ \A pid \in DOMAIN players :
               players[pid].alive =>
                 /\ players'[pid].x = MovePlayer(players[pid]).x
                 /\ players'[pid].y = MovePlayer(players[pid]).y
                 /\ players'[pid].z = MovePlayer(players[pid]).z
          /\ \A b \in DOMAIN bullets \cap DOMAIN bullets' :
               /\ bullets'[b].dist = bullets[b].dist + BULLET_SPEED * PHYSICS_HZ
               /\ bullets'[b].z = AfterStep(bullets[b]).z
          /\ ticked' = Kept(players', bullets')]_vars

\* A snapshot that shows a projectile fired since the last physics tick.
C25_Witness ==
  /\ Len(out) = 1
  /\ out[1].ev = "gs"
  /\ DOMAIN out[1].bullets # {}
  /\ DOMAIN ticked.bullets = {}

\* The projectiles a step adds that belong to player id.
FiredBy(id) ==
  {b \in DOMAIN bullets' \ DOMAIN bullets : bullets'[b].ownerId = id}

\* C31: a step in which a fire request of a player is accepted (projectiles
\* of that player are added) lowers that player's ammo by exactly 1 however
\* many projectiles it adds, restarts the player's fire-rate clock (lastShot
\* = now), and leaves the record of every other player as it was.
C31_OneRound ==
  [][\A id \in DOMAIN players :
       FiredBy(id) # {} =>
         /\ DOMAIN players' = DOMAIN players
         /\ players'[id].ammo = players[id].ammo - 1
         /\ players'[id].sinceShot = 0
         /\ \A o \in DOMAIN players \ {id} : players'[o] = players[o]]_vars

\* A shotgun volley has just left: PELLETS projectiles of s1 are in flight
\* for one round of its two, beside two other players.
C31_Witness ==
  /\ Cardinality({b \in DOMAIN bullets : bullets[b].ownerId = "s1"}) = PELLETS
  /\ players["s1"].ammo = 1
  /\ players["s1"].sinceShot = 0
  /\ {"s2", "s3"} \subseteq DOMAIN players
  /\ out = <<>>

\* C32: a step of a move request (no tick runs in it) changes a player's
\* vertical velocity only if the player was grounded, and then to
\* JUMP_FORCE with grounded cleared; it leaves an airborne player's vertical
\* velocity alone and never sets grounded.  So after one impulse no
\* further move request has any until a tick has grounded the player again.
C32_GroundedJump ==
  [][\A id \in DOMAIN players \cap DOMAIN players' :
       tickNo' = tickNo =>
         /\ players'[id].vy # players[id].vy =>
              /\ players[id].onGround
              /\ players'[id].vy = JUMP_FORCE
              /\ ~players'[id].onGround
         /\ ~players[id].onGround =>
              /\ players'[id].vy = players[id].vy
              /\ ~players'[id].onGround
         /\ players'[id].onGround => players[id].onGround]_vars

\* A player that a tick had set down on top of a box has jumped from there:
\* it is in the air above the floor with the whole impulse.
C32_Witness ==
  /\ tickNo > 0
  /\ ~players["s1"].onGround
  /\ players["s1"].vy = JUMP_FORCE
  /\ players["s1"].y > 0

\* C33: in every state a player whose ammo is 0 is reloading; a step takes
\* a player's ammo to 0 only by an accepted fire request of that player,
\* and that step sets reloading; a step that clears a player's reloading
\* flag leaves the player with ammo = maxAmmo.
C33_EmptyReloads ==
  /\ [](\A id \in DOMAIN players : players[id].ammo = 0 => players[id].reloading)
  /\ [][\A id \in DOMAIN players \cap DOMAIN players' :
          /\ players[id].ammo > 0 /\ players'[id].ammo = 0 =>
               /\ FiredBy(id) # {}
               /\ players'[id].reloading
          /\ players[id].reloading /\ ~players'[id].reloading =>
               players'[id].ammo = players'[id].maxAmmo]_vars

\* The last round has just been fired: the magazine is empty, the player is
\* reloading, and the projectile is on its way.
C33_Witness ==
  \E id \in DOMAIN players :
    /\ players[id].ammo = 0
    /\ players[id].reloading
    /\ players[id].sinceShot = 0
    /\ \E b \in DOMAIN bullets : bullets[b].ownerId = id

\* C34: a player whose reloading flag is set has a reload timer pending;
\* and, the clock advancing and due timers running, a reloading player
\* leaves or comes to have reloading false and ammo = maxAmmo, the state
\* in which the fire handler's reloading and ammo guards let it fire.
C34_ReloadEnds ==
  /\ [](\A id \in DOMAIN players :
          players[id].reloading => Pending(timers, "reload", id) # {})
  /\ \A id \in Ids :
       (id \in DOMAIN players /\ players[id].reloading)
         ~> \/ id \notin DOMAIN players
            \/ /\ ~players[id].reloading
               /\ players[id].ammo = players[id].maxAmmo

\* A living player is reloading and its reload timer has run out: the
\* callback is the next thing to run for it.
C34_Witness ==
  \E id \in DOMAIN players :
    /\ players[id].reloading
    /\ players[id].alive
    /\ \E i \in Pending(timers, "reload", id) : timers[i].ms = 0

\* C35: while the match is not game-over every player's kill count is below
\* WINS_REQUIRED; a step that takes a kill count to the threshold sets
\* game-over in that step, and a step that clears game-over leaves every
\* player with a kill count of 0.
C35_BelowThreshold ==
  /\ [](~gameOver => \A id \in DOMAIN players : players[id].kills < WINS_REQUIRED)
  /\ [][/\ \A id \in DOMAIN players \cap DOMAIN players' :
             /\ players[id].kills < WINS_REQUIRED
             /\ players'[id].kills >= WINS_REQUIRED
             => gameOver'
        /\ gameOver /\ ~gameOver' =>
             \A id \in DOMAIN players' : players'[id].kills = 0]_vars

\* A decided match has just been reset: the fifteenth kill was scored, and
\* new_game left the match running with every kill count at 0.
C35_Witness ==
  /\ ~gameOver
  /\ bulletId > MatchPointShots
  /\ Len(out) = 1
  /\ out[1].ev = "game_reset"
  /\ DOMAIN players # {}
  /\ \A id \in DOMAIN players : players[id].kills = 0

\* The game_over notifications among the messages msgs.
GameOvers(msgs) == {i \in 1..Len(msgs) : msgs[i].ev = "game_over"}

\* C36 as stated: no kill count exceeds WINS_REQUIRED; a step emits at most
\* one game_over, and none while the match is already game-over; and the
\* winner set with game-over stays as it is until the reset.
C36_AsStated ==
  /\ [](\A id \in DOMAIN players : players[id].kills <= WINS_REQUIRED)
  /\ [][/\ Cardinality(GameOvers(out')) <= 1
        /\ gameOver => GameOvers(out') = {}
        /\ gameOver /\ gameOver' => winner' = winner]_vars

\* C37: no projectile in the store has flown 181 ticks; a physics tick
\* that runs while the match is not game-over adds one tick's way to the
\* distance of every projectile it keeps, whatever the direction, none
\* included; while the match stays game-over every projectile stays as it
\* is, and the step that clears game-over empties the store.
C37_BoundedFlight ==
  /\ [](\A b \in DOMAIN bullets : bullets[b].dist < 181 * BULLET_STEP)
  /\ [][/\ BulletTick =>
             \A b \in DOMAIN bullets \cap DOMAIN bullets' :
               bullets'[b].dist = bullets[b].dist + BULLET_STEP
        /\ gameOver /\ gameOver' =>
             \A b \in DOMAIN bullets :
               b \in DOMAIN bullets' /\ bullets'[b] = bullets[b]
        /\ gameOver /\ ~gameOver' => DOMAIN bullets' = {}]_vars

\* The match is over while a projectile fired without direction, some
\* ticks old, is still where it was fired.
C37_Witness ==
  /\ gameOver
  /\ \E b \in DOMAIN bullets :
       /\ bullets[b].dx = 0 /\ bullets[b].dy = 0 /\ bullets[b].dz = 0
       /\ bullets[b].dist >= 100 * BULLET_STEP
       /\ bullets[b].x = players[bullets[b].ownerId].x

\* C38 as stated: a player whose reloading flag is set has ammo below
\* maxAmmo; so a player that has just respawned, with a full magazine, is
\* not reloading.
C38_AsStated ==
  \A id \in DOMAIN players :
    players[id].reloading => players[id].ammo < players[id].maxAmmo

\* C39 as stated: in a step taken while the match is and stays game-over
\* no projectile is added to the store, no projectile id is handed out, and
\* no player's ammo changes.
C39_AsStated ==
  [][gameOver /\ gameOver' =>
       /\ bulletId' = bulletId
       /\ DOMAIN bullets' \subseteq DOMAIN bullets
       /\ \A id \in DOMAIN players \cap DOMAIN players' :
            players'[id].ammo = players[id].ammo]_vars

====
